---- MODULE Spec2Model ----
(***************************************************************************)
(* Guild event processors of the gateway client (GuildEvents) over the     *)
(* entity cache: guild create / update / delete payloads are decomposed by *)
(* Guild.process_dict, merged into the cache and turned into GuildJoin,    *)
(* GuildUpdate, GuildLeft and GuildUnavailable events.                     *)
(*                                                                         *)
(* Python objects are modelled by reference: `heap` holds the Guild        *)
(* objects ever constructed, a reference is an index into it, None is the  *)
(* null reference.  A payload (a dict) is a function from field names to   *)
(* values; embedded objects are dicts again.                               *)
(***************************************************************************)
EXTENDS Integers, Sequences, FiniteSets, TLC

VARIABLES
    fetch_members,   \* client option: chunk members before announcing a guild
    heap,            \* Guild objects: [data |-> dict, chunked |-> BOOLEAN]
    guild_cache,     \* guild id -> reference of the cached Guild object
    channel_cache,   \* channel id -> record (channels and threads)
    member_cache,    \* guild id -> user id -> record
    role_cache,      \* guild id -> role id -> record
    user_cache,      \* user id -> record
    emoji_cache,     \* guild id -> emoji id -> record
    message_cache,   \* <<channel id, message id>> -> record
    writes,          \* history: the records written to the cache, in order
    user_guild_ids,  \* self._user._guild_ids
    guild_event,     \* self._guild_event (asyncio.Event)
    tasks,           \* one entry per raw payload delivered, in delivery order
    applied,         \* history: the place_guild_data calls, in call order
    dispatched,      \* the events handed to self.dispatch, in order
    read,            \* what the last synchronous accessor returned
    player,          \* Player.run: the line the player thread stands at
    _resume,         \* self._resume (threading.Event)
    _stop_event,     \* self._stop_event (threading.Event)
    _stopped,        \* self._stopped (asyncio.Event)
    ready,           \* self.state.ws.ready (threading.Event)
    _cond,           \* self._cond: who holds its lock, who waits on it
    wait_for,        \* the local list wait_for of Player.run
    current_audio,   \* the audio source: frames buffered, source exhausted,
                     \* locked stream, calls of cleanup()
    caller,          \* the thread that calls stop() and resume()
    loop_calls,      \* callbacks handed to loop.call_soon_threadsafe
    call             \* the last call of an application command function

\* the cache, the objects it refers to and its histories
world_vars == <<heap, guild_cache, channel_cache, member_cache, role_cache,
                user_cache, emoji_cache, message_cache, writes, applied>>

\* the voice player: its thread, its flags, its condition and its source
player_vars == <<player, _resume, _stop_event, _stopped, ready, _cond,
                 wait_for, current_audio, caller, loop_calls>>

\* what no processor of a raw payload changes
other_vars == <<fetch_members, read, player_vars, call>>

vars == <<other_vars, world_vars, user_guild_ids, guild_event, tasks,
          dispatched>>

\* ------------------------------------------------------------------ bounds

\* raw payloads delivered by the transport in one run
MaxPayloads == 3

\* frames the audio source of the voice player holds when it starts
MaxFrames == 2

\* ------------------------------------------------------- python primitives

\* the null reference
None == 0

\* the library's "absent" sentinel
MISSING == -1

\* An id comes on the wire as an integer or as the string of its decimal
\* digits. The string of the id n is written Wire + n, above every id in
\* use, so that the two forms are different values of one kind.
Wire == 1000

\* the string of an id
str(n) == Wire + n

\* to_snowflake: the integer of an id given as an integer or as a string
to_snowflake(x) == IF x >= Wire THEN x - Wire ELSE x

\* mutant of int: the value as it came
int_as_is(x) == x

\* int(x) of an integer or of the string of one
int(x) == IF x >= Wire THEN x - Wire ELSE x

\* dict.get(k, default)
Get(d, k, default) == IF k \in DOMAIN d THEN d[k] ELSE default

\* mutant of Pop: the key read with get, and left in the dict
Pop_keep(d, k) == d

\* the dict left by dict.pop(k, ...)
Pop(d, k) == [f \in DOMAIN d \ {k} |-> d[f]]

\* the dict after d[k] = v
Set(d, k, v) == (k :> v) @@ d

\* `x or MISSING` on an object reference
OrMissing(ref) == IF ref = None THEN MISSING ELSE ref

\* the keys of a dict filled by d[k] = ... over ks, in insertion order
RECURSIVE DictKeys(_)
DictKeys(ks) ==
    IF ks = <<>> THEN <<>>
    ELSE LET front == DictKeys(SubSeq(ks, 1, Len(ks) - 1))
             last == ks[Len(ks)]
         IN  IF \E i \in 1..Len(front) : front[i] = last
             THEN front ELSE Append(front, last)

\* ------------------------------------------------------------ entity store

EmptyStore == <<>>

\* put: merge fields into the record of id, creating it if absent
Put(store, id, fields) ==
    IF id \in DOMAIN store
    THEN [store EXCEPT ![id] = fields @@ @]
    ELSE (id :> fields) @@ store

\* put into the sub-store of a guild, creating the sub-store on first insert
PutScoped(store, guild_id, id, fields) ==
    LET sub == IF guild_id \in DOMAIN store THEN store[guild_id] ELSE EmptyStore
    IN  (guild_id :> Put(sub, id, fields)) @@ store

\* the history entry of one record written: its kind, its key, its fields
Written(w, kind, key, fields) ==
    [w EXCEPT !.writes = Append(@, [kind |-> kind, key |-> key, data |-> fields])]

\* drop the sub-store of a guild
DropScoped(store, guild_id) == [g \in DOMAIN store \ {guild_id} |-> store[g]]

\* the cache and the objects it refers to, as one value
World ==
    [heap |-> heap, guild_cache |-> guild_cache, channel_cache |-> channel_cache,
     member_cache |-> member_cache, role_cache |-> role_cache,
     user_cache |-> user_cache, emoji_cache |-> emoji_cache,
     message_cache |-> message_cache, writes |-> writes, applied |-> applied]

SetWorld(w) ==
    /\ heap' = w.heap
    /\ guild_cache' = w.guild_cache
    /\ channel_cache' = w.channel_cache
    /\ member_cache' = w.member_cache
    /\ role_cache' = w.role_cache
    /\ user_cache' = w.user_cache
    /\ emoji_cache' = w.emoji_cache
    /\ message_cache' = w.message_cache
    /\ writes' = w.writes
    /\ applied' = w.applied

place_channel_data(w, channel_data) ==
    Written([w EXCEPT !.channel_cache = Put(@, channel_data.id, channel_data)],
            "channel", <<channel_data.id>>, channel_data)

place_user_data(w, user_data) ==
    Written([w EXCEPT !.user_cache = Put(@, user_data.id, user_data)],
            "user", <<user_data.id>>, user_data)

\* a guild member payload embeds its user under "user"; the author of a
\* message is a user payload that embeds the member under "member". Either
\* way the user is placed and the member is keyed by the user id
place_member_data(w, guild_id, member_data) ==
    LET user_data == IF "user" \in DOMAIN member_data
                     THEN member_data.user
                     ELSE Pop(member_data, "member")
        member == IF "user" \in DOMAIN member_data
                  THEN Pop(member_data, "user")
                  ELSE member_data.member
        user_id == user_data.id
        fields == Set(Set(member, "id", user_id), "guild_id", guild_id)
    IN  Written([place_user_data(w, user_data)
                    EXCEPT !.member_cache = PutScoped(@, guild_id, user_id, fields)],
                "member", <<guild_id, user_id>>, fields)

RECURSIVE place_role_data(_, _, _)
place_role_data(w, guild_id, roles_data) ==
    IF roles_data = <<>> THEN w
    ELSE LET role_data == Set(Head(roles_data), "guild_id", guild_id)
         IN  place_role_data(
                 Written([w EXCEPT !.role_cache =
                             PutScoped(@, guild_id, role_data.id, role_data)],
                         "role", <<guild_id, role_data.id>>, role_data),
                 guild_id, Tail(roles_data))

get_guild(w, guild_id) ==
    IF guild_id \in DOMAIN w.guild_cache THEN w.guild_cache[guild_id] ELSE None

\* cache.delete_guild: drop the guild record and the guild's scoped sub-stores
delete_guild(w, guild_id) ==
    [w EXCEPT !.guild_cache = [g \in DOMAIN @ \ {guild_id} |-> @[g]],
              !.member_cache = DropScoped(@, guild_id),
              !.role_cache = DropScoped(@, guild_id),
              !.emoji_cache = DropScoped(@, guild_id)]

\* ------------------------------------------------------------- decomposer

\* mutant of IdsOf: the ids collected in reverse
IdsOf_reversed(xs) == [i \in 1..Len(xs) |-> xs[Len(xs) + 1 - i].id]

\* [place(x).id for x in xs]
IdsOf(xs) == [i \in 1..Len(xs) |-> xs[i].id]

UserIdsOf(xs) == [i \in 1..Len(xs) |-> xs[i].user.id]

\* mutant of place_channels: the ids are listed and no channel is placed
place_channels_none(w, channels_data) == w

RECURSIVE place_channels(_, _)
place_channels(w, channels_data) ==
    IF channels_data = <<>> THEN w
    ELSE place_channels(place_channel_data(w, Head(channels_data)),
                        Tail(channels_data))

RECURSIVE place_members(_, _, _)
place_members(w, guild_id, members_data) ==
    IF members_data = <<>> THEN w
    ELSE place_members(place_member_data(w, guild_id, Head(members_data)),
                       guild_id, Tail(members_data))

\* Guild.process_dict: the normalized payload and the cache after the
\* embedded channels, threads, members and roles have been placed
process_dict(w, data) ==
    LET guild_id == to_snowflake(data.id)
        channels_data == Get(data, "channels", <<>>)
        w1 == place_channels(w, channels_data)
        d1 == Set(Pop(data, "channels"), "channel_ids", IdsOf(channels_data))
        threads_data == Get(d1, "threads", <<>>)
        w2 == place_channels(w1, threads_data)
        d2 == Set(Pop(d1, "threads"), "thread_ids", IdsOf(threads_data))
        members_data == Get(d2, "members", <<>>)
        w3 == place_members(w2, guild_id, members_data)
        d3 == Set(Pop(d2, "members"), "member_ids", UserIdsOf(members_data))
        roles_data == Get(d3, "roles", <<>>)
        w4 == place_role_data(w3, guild_id, roles_data)
        d4 == Set(Pop(d3, "roles"), "role_ids", DictKeys(IdsOf(roles_data)))
    IN  [data |-> d4, w |-> w4]

\* cache.place_guild_data: decompose, then construct the Guild or merge into
\* the cached one; the Guild object is returned
place_guild_data(w, data) ==
    LET guild_id == to_snowflake(data.id)
        ref == get_guild(w, guild_id)
        pd == process_dict(w, data)
        new == Len(w.heap) + 1
    IN  IF ref = None
        THEN [guild |-> new,
              w |-> Written(
                      [pd.w EXCEPT
                         !.heap = Append(@, [data |-> pd.data, chunked |-> FALSE]),
                         !.guild_cache = (guild_id :> new) @@ @,
                         !.applied = Append(@, [guild |-> new, data |-> data])],
                      "guild", <<guild_id>>, pd.data)]
        ELSE [guild |-> ref,
              w |-> Written(
                      [pd.w EXCEPT
                         !.heap[ref].data = pd.data @@ @,
                         !.applied = Append(@, [guild |-> ref, data |-> data])],
                      "guild", <<guild_id>>, pd.data)]

\* mutant of copy_copy: the object itself instead of a copy
copy_copy_alias(w, ref) == [w |-> w, ref |-> ref]

\* copy.copy of a Guild (or of None)
copy_copy(w, ref) ==
    IF ref = None THEN [w |-> w, ref |-> None]
    ELSE [w |-> [w EXCEPT !.heap = Append(@, @[ref])], ref |-> Len(w.heap) + 1]

\* ------------------------------------------------------------------ inputs

\* the guild ids the transport speaks of
GuildIds == {42, 43}

\* the spec's example payload
ExamplePayload ==
    [id |-> 42, owner_id |-> 7,
     channels |-> <<[id |-> 100]>>, roles |-> <<[id |-> 200]>>]

FullPayload ==
    [id |-> 42, name |-> "Old", owner_id |-> 7,
     channels |-> <<[id |-> 101, type |-> "text"], [id |-> 100, type |-> "text"]>>,
     threads |-> <<[id |-> 110, type |-> "thread"]>>,
     members |-> <<[user |-> [id |-> 8], nick |-> "b"],
                   [user |-> [id |-> 7], nick |-> "a"]>>,
     roles |-> <<[id |-> 201, name |-> "mod"], [id |-> 200, name |-> "admin"]>>]

PartialPayload == [id |-> 42, name |-> "New"]

OtherPayload == [id |-> 43, name |-> "New"]

EmojiPayload ==
    [id |-> 43, name |-> "Old", owner_id |-> 8,
     emojis |-> <<[id |-> 300, name |-> "smile"]>>,
     members |-> <<[user |-> [id |-> 8], nick |-> "b"]>>]

\* the payloads of GUILD_CREATE
CreatePayloads == {ExamplePayload, FullPayload, EmojiPayload}

\* the payloads of GUILD_UPDATE
UpdatePayloads == {PartialPayload, OtherPayload}

\* the payloads of GUILD_DELETE
DeletePayloads ==
    {[id |-> g] : g \in GuildIds} \cup
    {[id |-> g, unavailable |-> TRUE] : g \in GuildIds}

\* what the origin answers to a fetch of a guild
OriginGuild(guild_id) ==
    [id |-> guild_id, name |-> "Origin", owner_id |-> 9,
     roles |-> <<[id |-> 200, name |-> "admin"]>>]

\* ------------------------------------------------------------------ events

GuildJoin(guild, n) == [type |-> "GuildJoin", guild |-> guild, task |-> n]

GuildUpdate(before, after, n) ==
    [type |-> "GuildUpdate", before |-> before, after |-> after, task |-> n]

GuildUnavailable(guild_id, guild, n) ==
    [type |-> "GuildUnavailable", guild_id |-> guild_id, guild |-> guild,
     task |-> n]

GuildLeft(guild_id, guild, n) ==
    [type |-> "GuildLeft", guild_id |-> guild_id, guild |-> guild, task |-> n]

\* a processor invocation: its payload, where it stands, and the Guild it
\* got from the cache when it started (None on a miss)
Task(kind, data, pc, guild) ==
    [kind |-> kind, data |-> data, pc |-> pc, guild |-> guild]

\* no application command function has been called yet
NoCall == [fn |-> "none"]

\* no synchronous accessor has been called yet
NoRead == [accessor |-> "none", result |-> <<>>]

\* Player.__init__ (lines 29-46): the events start unset, nobody holds or
\* waits on the condition, the thread is not started; the voice socket is
\* not ready yet and the source holds its frames
PlayerInit ==
    /\ player = "new"
    /\ _resume = FALSE
    /\ _stop_event = FALSE
    /\ _stopped = FALSE
    /\ ready = FALSE
    /\ _cond = [held |-> FALSE, waiting |-> FALSE]
    /\ wait_for = {}
    /\ current_audio = [frames |-> MaxFrames, complete |-> FALSE,
                        locked_stream |-> FALSE, cleanups |-> 0]
    /\ caller = "idle"
    /\ loop_calls = {}

\* ------------------------------------------------------------- processors

Init ==
    /\ fetch_members \in BOOLEAN
    /\ heap = <<>>
    /\ guild_cache = EmptyStore
    /\ channel_cache = EmptyStore
    /\ member_cache = EmptyStore
    /\ role_cache = EmptyStore
    /\ user_cache = EmptyStore
    /\ emoji_cache = EmptyStore
    /\ message_cache = EmptyStore
    /\ writes = <<>>
    /\ user_guild_ids = {}
    /\ guild_event = FALSE
    /\ tasks = <<>>
    /\ applied = <<>>
    /\ dispatched = <<>>
    /\ read = NoRead
    /\ call = NoCall
    /\ PlayerInit

\* mutant of on_error: the exception of a processor reaches the loop that
\* runs the processors
on_error_raise == "raised"

\* where a processor stands once it has raised: the exception is reported
\* and the processor is over
on_error == "failed"

\* the loop that runs the processors is alive: no exception has reached it
Running == \A n \in 1..Len(tasks) : tasks[n].pc # "raised"

\* mutant of CanDeliver: the raw updates are handled one after the other, the
\* next one when no processor is suspended in guild.chunk()
CanDeliver_in_turn ==
    /\ Len(tasks) < MaxPayloads
    /\ Running
    /\ \A n \in 1..Len(tasks) : tasks[n].pc # "chunk"

\* a raw update can be handed to its processor
CanDeliver == Len(tasks) < MaxPayloads /\ Running

\* a processor raises before it has written or dispatched anything
Raise(kind, data) ==
    /\ tasks' = Append(tasks, Task(kind, data, on_error, None))
    /\ UNCHANGED <<world_vars, user_guild_ids, guild_event, dispatched>>

\* mutant of must_chunk: the processor waits without looking at the flag
must_chunk_always(w, guild) == fetch_members

\* mutant of must_chunk: the processor never waits
must_chunk_never(w, guild) == FALSE

\* the test of line 42: the create processor has to wait for the chunking
must_chunk(w, guild) == fetch_members /\ ~w.heap[guild].chunked

\* mutant of _on_raw_guild_create: GuildJoin dispatched before the test of
\* line 42 as well as after the wait
_on_raw_guild_create_early(data) ==
    LET placed == place_guild_data(World, data)
        guild == placed.guild
        n == Len(tasks) + 1
    IN  /\ CanDeliver
        /\ IF "id" \notin DOMAIN data
           THEN Raise("create", data)
           ELSE /\ SetWorld(placed.w)
                /\ user_guild_ids' = user_guild_ids \cup {to_snowflake(data.id)}
                /\ guild_event' = TRUE
                /\ dispatched' = Append(dispatched, GuildJoin(guild, n))
                /\ IF must_chunk(placed.w, guild)
                   THEN tasks' = Append(tasks, Task("create", data, "chunk", guild))
                   ELSE tasks' = Append(tasks, Task("create", data, "done", guild))
        /\ UNCHANGED other_vars

\* _on_raw_guild_create, up to its dispatch or its await of guild.chunk();
\* a payload without "id" raises KeyError at the first line of process_dict
_on_raw_guild_create(data) ==
    LET placed == place_guild_data(World, data)
        guild == placed.guild
        n == Len(tasks) + 1
    IN  /\ CanDeliver
        /\ IF "id" \notin DOMAIN data
           THEN Raise("create", data)
           ELSE /\ SetWorld(placed.w)
                /\ user_guild_ids' = user_guild_ids \cup {to_snowflake(data.id)}
                /\ guild_event' = TRUE
                /\ IF must_chunk(placed.w, guild)
                   THEN /\ tasks' = Append(tasks,
                                        Task("create", data, "chunk", guild))
                        /\ UNCHANGED dispatched
                   ELSE /\ tasks' = Append(tasks,
                                        Task("create", data, "done", guild))
                        /\ dispatched' = Append(dispatched, GuildJoin(guild, n))
        /\ UNCHANGED other_vars

\* mutant of guild_create_resume: the waiter resumes before the signal
guild_create_resume_early(n) ==
    /\ Running
    /\ tasks[n].pc = "chunk"
    /\ tasks' = [tasks EXCEPT ![n].pc = "done"]
    /\ dispatched' = Append(dispatched, GuildJoin(tasks[n].guild, n))
    /\ UNCHANGED <<other_vars, world_vars, user_guild_ids, guild_event>>

\* mutant of guild_create_resume: the waiter resumes on the signal of any
\* guild
guild_create_resume_any(n) ==
    /\ Running
    /\ tasks[n].pc = "chunk"
    /\ \E ref \in 1..Len(heap) : heap[ref].chunked
    /\ tasks' = [tasks EXCEPT ![n].pc = "done"]
    /\ dispatched' = Append(dispatched, GuildJoin(tasks[n].guild, n))
    /\ UNCHANGED <<other_vars, world_vars, user_guild_ids, guild_event>>

\* _on_raw_guild_create resumed: guild.chunk() has returned
guild_create_resume(n) ==
    /\ Running
    /\ tasks[n].pc = "chunk"
    /\ heap[tasks[n].guild].chunked
    /\ tasks' = [tasks EXCEPT ![n].pc = "done"]
    /\ dispatched' = Append(dispatched, GuildJoin(tasks[n].guild, n))
    /\ UNCHANGED <<other_vars, world_vars, user_guild_ids, guild_event>>

\* the last member chunk that a waiting guild.chunk() asked for has been
\* processed: chunked.set() on the cached Guild
member_chunks_complete(guild_id) ==
    /\ Running
    /\ get_guild(World, guild_id) # None
    /\ \E n \in 1..Len(tasks) :
          tasks[n].pc = "chunk" /\ tasks[n].guild = guild_cache[guild_id]
    /\ ~heap[guild_cache[guild_id]].chunked
    /\ heap' = [heap EXCEPT ![guild_cache[guild_id]].chunked = TRUE]
    /\ UNCHANGED <<other_vars, guild_cache, channel_cache, member_cache,
                   role_cache, user_cache, emoji_cache, message_cache, writes,
                   user_guild_ids, guild_event, tasks, applied, dispatched>>

\* lines 50-51 once fetch_guild has returned `found`: the copy, the merge
\* and the event
guild_update(w, found, data, n) ==
    LET before == copy_copy(w, found)
        placed == place_guild_data(before.w, data)
    IN  [w |-> placed.w,
         event |-> GuildUpdate(OrMissing(before.ref), placed.guild, n)]

\* mutant of _on_raw_guild_update: the payload placed before fetch_guild is
\* awaited
_on_raw_guild_update_place_first(data) ==
    /\ CanDeliver
    /\ "id" \in DOMAIN data
    /\ SetWorld(place_guild_data(World, data).w)
    /\ tasks' = Append(tasks, Task("update", data, "fetch", None))
    /\ UNCHANGED <<other_vars, dispatched, user_guild_ids, guild_event>>

\* _on_raw_guild_update: fetch_guild answers from the cache, or suspends on
\* a request to the origin; it raises when it is given None, which is what
\* event.data.get("id") is without an "id"
_on_raw_guild_update(data) ==
    LET guild_id == Get(data, "id", None)
        found == get_guild(World, to_snowflake(guild_id))
        n == Len(tasks) + 1
        done == guild_update(World, found, data, n)
    IN  /\ CanDeliver
        /\ IF guild_id = None
           THEN Raise("update", data)
           ELSE IF found # None
           THEN /\ SetWorld(done.w)
                /\ tasks' = Append(tasks, Task("update", data, "done", found))
                /\ dispatched' = Append(dispatched, done.event)
                /\ UNCHANGED <<user_guild_ids, guild_event>>
           ELSE /\ tasks' = Append(tasks, Task("update", data, "fetch", None))
                /\ UNCHANGED <<world_vars, dispatched, user_guild_ids,
                               guild_event>>
        /\ UNCHANGED other_vars

\* the origin answers: fetch_guild places the answer and returns its Guild
fetch_guild_response(n) ==
    LET fetched == place_guild_data(World, OriginGuild(to_snowflake(tasks[n].data.id)))
        done == guild_update(fetched.w, fetched.guild, tasks[n].data, n)
    IN  /\ Running
        /\ tasks[n].kind = "update"
        /\ tasks[n].pc = "fetch"
        /\ SetWorld(done.w)
        /\ tasks' = [tasks EXCEPT ![n].pc = "done"]
        /\ dispatched' = Append(dispatched, done.event)
        /\ UNCHANGED <<other_vars, user_guild_ids, guild_event>>

\* the origin fails (not found, transport error): fetch_guild raises and the
\* processor ends without an event
fetch_guild_error(n) ==
    /\ Running
    /\ tasks[n].pc = "fetch"
    /\ tasks' = [tasks EXCEPT ![n].pc = on_error]
    /\ UNCHANGED <<other_vars, world_vars, user_guild_ids, guild_event,
                   dispatched>>

\* mutant of guild_left: the guild looked up and never deleted
guild_left_keep(w, guild_id) == [guild |-> get_guild(w, guild_id), w |-> w]

\* mutant of guild_left: the guild looked up after it has been deleted
guild_left_late(w, guild_id) ==
    [guild |-> get_guild(delete_guild(w, guild_id), guild_id),
     w |-> delete_guild(w, guild_id)]

\* lines 69-71: the guild taken right before it is deleted
guild_left(w, guild_id) ==
    [guild |-> get_guild(w, guild_id), w |-> delete_guild(w, guild_id)]

\* mutant of guild_delete: the guild is removed whatever the unavailable flag
guild_delete_evict(data, guild_id) ==
    LET n == Len(tasks) + 1
        left == guild_left(World, guild_id)
    IN  /\ user_guild_ids' = user_guild_ids \ {guild_id}
        /\ SetWorld(left.w)
        /\ dispatched' = Append(dispatched,
            IF Get(data, "unavailable", FALSE)
            THEN GuildUnavailable(guild_id, OrMissing(left.guild), n)
            ELSE GuildLeft(guild_id, OrMissing(left.guild), n))
        /\ tasks' = Append(tasks, Task("delete", data, "done", left.guild))
        /\ UNCHANGED guild_event

\* lines 57-78, from the guild id on: the two branches of the processor
guild_delete(data, guild_id) ==
    LET n == Len(tasks) + 1
        left == guild_left(World, guild_id)
    IN  IF Get(data, "unavailable", FALSE)
        THEN /\ dispatched' = Append(dispatched,
                 GuildUnavailable(guild_id,
                     OrMissing(get_guild(World, guild_id)), n))
             /\ tasks' = Append(tasks,
                 Task("delete", data, "done", get_guild(World, guild_id)))
             /\ UNCHANGED <<world_vars, user_guild_ids, guild_event>>
        ELSE /\ user_guild_ids' = user_guild_ids \ {guild_id}
             /\ SetWorld(left.w)
             /\ dispatched' = Append(dispatched,
                 GuildLeft(guild_id, OrMissing(left.guild), n))
             /\ tasks' = Append(tasks, Task("delete", data, "done", left.guild))
             /\ UNCHANGED guild_event

\* mutant of _on_raw_guild_delete: the id taken as it comes, without int()
_on_raw_guild_delete_as_is(data) ==
    /\ CanDeliver
    /\ guild_delete(data, Get(data, "id", None))
    /\ UNCHANGED other_vars

\* _on_raw_guild_delete: int(event.data.get("id")) raises TypeError on the
\* None of a payload without "id"
_on_raw_guild_delete(data) ==
    LET guild_id == Get(data, "id", None)
    IN  /\ CanDeliver
        /\ IF guild_id = None
           THEN Raise("delete", data)
           ELSE guild_delete(data, int(guild_id))
        /\ UNCHANGED other_vars

Next ==
    \/ \E data \in CreatePayloads : _on_raw_guild_create(data)
    \/ \E n \in 1..Len(tasks) : guild_create_resume(n)
    \/ \E guild_id \in GuildIds : member_chunks_complete(guild_id)
    \/ \E data \in UpdatePayloads : _on_raw_guild_update(data)
    \/ \E n \in 1..Len(tasks) : fetch_guild_response(n)
    \/ \E n \in 1..Len(tasks) : fetch_guild_error(n)
    \/ \E data \in DeletePayloads : _on_raw_guild_delete(data)

Spec == Init /\ [][Next]_vars

\* the event loop runs every coroutine that is ready: a create processor
\* whose guild.chunk() can return does resume
Fairness ==
    \A n \in 1..MaxPayloads :
        WF_vars(n <= Len(tasks) /\ guild_create_resume(n))

\* the processors that set, await and evict the chunked flags
NextGate ==
    \/ \E data \in CreatePayloads : _on_raw_guild_create(data)
    \/ \E n \in 1..Len(tasks) : guild_create_resume(n)
    \/ \E guild_id \in GuildIds : member_chunks_complete(guild_id)
    \/ \E data \in DeletePayloads : _on_raw_guild_delete(data)

SpecFair == Init /\ [][NextGate]_vars /\ Fairness

\* the raw updates of two guilds, one create payload each
NextTwoGuilds ==
    \/ \E data \in {ExamplePayload, EmojiPayload} : _on_raw_guild_create(data)
    \/ \E n \in 1..Len(tasks) : guild_create_resume(n)
    \/ \E guild_id \in GuildIds : member_chunks_complete(guild_id)
    \/ \E data \in UpdatePayloads : _on_raw_guild_update(data)
    \/ \E n \in 1..Len(tasks) : fetch_guild_response(n)
    \/ \E n \in 1..Len(tasks) : fetch_guild_error(n)
    \/ \E guild_id \in GuildIds : _on_raw_guild_delete([id |-> guild_id])

SpecTwoGuilds == Init /\ [][NextTwoGuilds]_vars

\* a GUILD_CREATE payload with its id as a string
StringPayload == [ExamplePayload EXCEPT !.id = str(42)]

\* GUILD_DELETE payloads with the id in either form
IdDeletePayloads ==
    {[id |-> 42], [id |-> str(42)], [id |-> 43],
     [id |-> str(43), unavailable |-> TRUE]}

\* the raw updates that add to and remove from the user's guild ids
NextIds ==
    \/ \E data \in {ExamplePayload, StringPayload, EmojiPayload} :
        _on_raw_guild_create(data)
    \/ \E n \in 1..Len(tasks) : guild_create_resume(n)
    \/ \E guild_id \in GuildIds : member_chunks_complete(guild_id)
    \/ _on_raw_guild_update(OtherPayload)
    \/ \E n \in 1..Len(tasks) : fetch_guild_response(n)
    \/ \E data \in IdDeletePayloads : _on_raw_guild_delete(data)

SpecIds == Init /\ [][NextIds]_vars

\* ------------------------------------------------- malformed raw updates

\* a GUILD_CREATE or GUILD_UPDATE payload without its id
MalformedPayload == [name |-> "New"]

\* a GUILD_DELETE payload without its id
MalformedDelete == [unavailable |-> FALSE]

ErrCreatePayloads == {ExamplePayload, MalformedPayload}

ErrUpdatePayloads == {PartialPayload, MalformedPayload}

ErrDeletePayloads == {[id |-> 42], MalformedDelete}

\* the guild processors fed with well-formed and malformed payloads
NextErr ==
    \/ \E data \in ErrCreatePayloads : _on_raw_guild_create(data)
    \/ \E n \in 1..Len(tasks) : guild_create_resume(n)
    \/ \E guild_id \in GuildIds : member_chunks_complete(guild_id)
    \/ \E data \in ErrUpdatePayloads : _on_raw_guild_update(data)
    \/ \E n \in 1..Len(tasks) : fetch_guild_response(n)
    \/ \E n \in 1..Len(tasks) : fetch_guild_error(n)
    \/ \E data \in ErrDeletePayloads : _on_raw_guild_delete(data)

SpecErr == Init /\ [][NextErr]_vars

\* ------------------------------------------------- sub-entity processors

\* cache.get_emoji: the emoji of that id, of whatever guild: <<record>>, or
\* <<>> when there is none
get_emoji(w, emoji_id) ==
    LET holders == {g \in DOMAIN w.emoji_cache : emoji_id \in DOMAIN w.emoji_cache[g]}
    IN  IF holders = {}
        THEN <<>>
        ELSE <<w.emoji_cache[CHOOSE g \in holders : TRUE][emoji_id]>>

\* cache.place_emoji_data: the emoji put under its guild
place_emoji_data(w, guild_id, emoji) ==
    Written([w EXCEPT !.emoji_cache = PutScoped(@, guild_id, emoji.id, emoji)],
            "emoji", <<guild_id, emoji.id>>, emoji)

\* line 107: the emoji as they are before the update, in payload order
emojis_before(w, emojis) ==
    IF w.emoji_cache # EmptyStore
    THEN [i \in 1..Len(emojis) |-> get_emoji(w, emojis[i].id)]
    ELSE <<>>

\* line 111, the writes: each emoji of the payload placed, in payload order
RECURSIVE place_emojis(_, _, _)
place_emojis(w, guild_id, emojis) ==
    IF emojis = <<>>
    THEN w
    ELSE place_emojis(place_emoji_data(w, guild_id, Head(emojis)),
                      guild_id, Tail(emojis))

\* line 111, the list: what place_emoji_data returned for each emoji
emojis_after(w, guild_id, emojis) ==
    [i \in 1..Len(emojis) |-> w.emoji_cache[guild_id][emojis[i].id]]

BanCreate(guild_id, user, n) ==
    [type |-> "BanCreate", guild_id |-> guild_id, user |-> user, task |-> n]

BanRemove(guild_id, user, n) ==
    [type |-> "BanRemove", guild_id |-> guild_id, user |-> user, task |-> n]

IntegrationCreate(integration, n) ==
    [type |-> "IntegrationCreate", integration |-> integration, task |-> n]

IntegrationUpdate(integration, n) ==
    [type |-> "IntegrationUpdate", integration |-> integration, task |-> n]

IntegrationDelete(guild_id, id, application_id, n) ==
    [type |-> "IntegrationDelete", guild_id |-> guild_id, id |-> id,
     application_id |-> application_id, task |-> n]

GuildEmojisUpdate(guild_id, before, after, n) ==
    [type |-> "GuildEmojisUpdate", guild_id |-> guild_id, before |-> before,
     after |-> after, task |-> n]

GuildStickersUpdate(guild_id, stickers, n) ==
    [type |-> "GuildStickersUpdate", guild_id |-> guild_id,
     stickers |-> stickers, task |-> n]

WebhooksUpdate(guild_id, channel_id, n) ==
    [type |-> "WebhooksUpdate", guild_id |-> guild_id,
     channel_id |-> channel_id, task |-> n]

\* a processor without an await: it runs to its dispatch in one go
Immediate(kind, data, w, event) ==
    /\ CanDeliver
    /\ SetWorld(w)
    /\ tasks' = Append(tasks, Task(kind, data, "done", None))
    /\ dispatched' = Append(dispatched, event)
    /\ UNCHANGED <<other_vars, user_guild_ids, guild_event>>

\* mutant of _on_raw_guild_ban_add: the processor waits for the chunking of
\* a guild that is cached and not chunked, as the create processor does
_on_raw_guild_ban_add_gated(data) ==
    LET guild == get_guild(World, Get(data, "guild_id", None))
        n == Len(tasks) + 1
    IN  IF guild # None /\ must_chunk(World, guild)
        THEN /\ CanDeliver
             /\ tasks' = Append(tasks, Task("ban_add", data, "chunk", guild))
             /\ UNCHANGED <<other_vars, world_vars, user_guild_ids,
                            guild_event, dispatched>>
        ELSE Immediate("ban_add", data, place_user_data(World, data.user),
                 BanCreate(Get(data, "guild_id", None), data.user.id, n))

_on_raw_guild_ban_add(data) ==
    Immediate("ban_add", data, place_user_data(World, data.user),
        BanCreate(Get(data, "guild_id", None), data.user.id, Len(tasks) + 1))

_on_raw_guild_ban_remove(data) ==
    Immediate("ban_remove", data, place_user_data(World, data.user),
        BanRemove(Get(data, "guild_id", None), data.user.id, Len(tasks) + 1))

_on_raw_integration_create(data) ==
    Immediate("integration_create", data, World,
        IntegrationCreate(data, Len(tasks) + 1))

_on_raw_integration_update(data) ==
    Immediate("integration_update", data, World,
        IntegrationUpdate(data, Len(tasks) + 1))

_on_raw_integration_delete(data) ==
    Immediate("integration_delete", data, World,
        IntegrationDelete(Get(data, "guild_id", None), Get(data, "id", None),
            Get(data, "application_id", None), Len(tasks) + 1))

\* mutant of _on_raw_guild_emojis_update: `before` read after the payload
\* has been placed
_on_raw_guild_emojis_update_late(data) ==
    LET guild_id == Get(data, "guild_id", None)
        emojis == Get(data, "emojis", None)
        placed == place_emojis(World, guild_id, emojis)
        before == emojis_before(placed, emojis)
        after == emojis_after(placed, guild_id, emojis)
    IN  Immediate("emojis_update", data, placed,
            GuildEmojisUpdate(guild_id, before, after, Len(tasks) + 1))

_on_raw_guild_emojis_update(data) ==
    LET guild_id == Get(data, "guild_id", None)
        emojis == Get(data, "emojis", None)
        before == emojis_before(World, emojis)
        placed == place_emojis(World, guild_id, emojis)
        after == emojis_after(placed, guild_id, emojis)
    IN  Immediate("emojis_update", data, placed,
            GuildEmojisUpdate(guild_id, before, after, Len(tasks) + 1))

_on_raw_guild_stickers_update(data) ==
    Immediate("stickers_update", data, World,
        GuildStickersUpdate(Get(data, "guild_id", None),
            Get(data, "stickers", <<>>), Len(tasks) + 1))

_on_raw_webhook_update(data) ==
    Immediate("webhook_update", data, World,
        WebhooksUpdate(Get(data, "guild_id", None),
            Get(data, "channel_id", None), Len(tasks) + 1))

\* the kinds of the processors of lines 80-130
SubEntityKinds ==
    {"ban_add", "ban_remove", "integration_create", "integration_update",
     "integration_delete", "emojis_update", "stickers_update", "webhook_update"}

BanPayload == [guild_id |-> 42, user |-> [id |-> 9, username |-> "x"]]

IntegrationPayload == [guild_id |-> 42, id |-> 500, application_id |-> 600]

EmojisPayloads ==
    {[guild_id |-> 42, emojis |-> <<[id |-> 301, name |-> "wave"],
                                    [id |-> 300, name |-> "smile"]>>],
     [guild_id |-> 43, emojis |-> <<[id |-> 300, name |-> "grin"]>>]}

StickersPayload == [guild_id |-> 42, stickers |-> <<[id |-> 400, name |-> "s"]>>]

WebhookPayload == [guild_id |-> 42, channel_id |-> 100]

SubCreatePayloads == {FullPayload, EmojiPayload}

SubDeletePayloads == {[id |-> g] : g \in GuildIds}

\* guilds created, chunked and deleted while sub-entity updates arrive
NextSub ==
    \/ \E data \in SubCreatePayloads : _on_raw_guild_create(data)
    \/ \E n \in 1..Len(tasks) : guild_create_resume(n)
    \/ \E guild_id \in GuildIds : member_chunks_complete(guild_id)
    \/ \E data \in SubDeletePayloads : _on_raw_guild_delete(data)
    \/ _on_raw_guild_ban_add(BanPayload)
    \/ _on_raw_guild_ban_remove(BanPayload)
    \/ _on_raw_integration_create(IntegrationPayload)
    \/ _on_raw_integration_update(IntegrationPayload)
    \/ _on_raw_integration_delete(IntegrationPayload)
    \/ \E data \in EmojisPayloads : _on_raw_guild_emojis_update(data)
    \/ _on_raw_guild_stickers_update(StickersPayload)
    \/ _on_raw_webhook_update(WebhookPayload)

SpecSub == Init /\ [][NextSub]_vars

\* --------------------------------------------------------------- messages

\* lines 369-376, the writes: each mentioned user placed, as a member when
\* the message is of a guild and the mention embeds one
RECURSIVE place_mentions(_, _, _)
place_mentions(w, data, mentions_data) ==
    IF mentions_data = <<>>
    THEN w
    ELSE LET user_data == Head(mentions_data)
             placed == IF "guild_id" \in DOMAIN data /\ "member" \in DOMAIN user_data
                       THEN place_member_data(w, data.guild_id, user_data)
                       ELSE place_user_data(w, user_data)
         IN  place_mentions(placed, data, Tail(mentions_data))

RECURSIVE _process_dict(_, _)
RECURSIVE place_message_data(_, _)

\* Message._process_dict: the normalized payload and the cache after the
\* author, the mentioned users, the referenced message and the thread have
\* been placed. The payloads of the model carry no attachments, embeds,
\* reactions, interaction, components or stickers, and no channel mention.
_process_dict(w, data) ==
    LET has_author == "author" \in DOMAIN data
        as_member == "guild_id" \in DOMAIN data /\ "member" \in DOMAIN data
        w1 == IF ~has_author THEN w
              ELSE IF as_member
              THEN place_member_data(w, data.guild_id,
                                     Set(data.author, "member", data.member))
              ELSE place_user_data(w, data.author)
        d1 == IF ~has_author THEN data
              ELSE IF as_member
              THEN Set(Pop(Pop(data, "author"), "member"), "author_id",
                       data.author.id)
              ELSE Set(Pop(data, "author"), "author_id", data.author.id)
        mentions_data == Get(d1, "mentions", <<>>)
        w2 == place_mentions(w1, d1, mentions_data)
        d2 == IF mentions_data = <<>>
              THEN Pop(d1, "mentions")
              ELSE Set(Pop(d1, "mentions"), "mention_ids", IdsOf(mentions_data))
        has_ref == "referenced_message" \in DOMAIN d2
        ref_message_data ==
              IF Get(d2.referenced_message, "guild_id", None) = None
              THEN Set(d2.referenced_message, "guild_id", Get(d2, "guild_id", None))
              ELSE d2.referenced_message
        w3 == IF has_ref THEN place_message_data(w2, ref_message_data) ELSE w2
        d3 == IF has_ref
              THEN Set(Pop(d2, "referenced_message"), "referenced_message_id",
                       ref_message_data.id)
              ELSE d2
        has_thread == "thread" \in DOMAIN d3
        w4 == IF has_thread THEN place_channel_data(w3, d3.thread) ELSE w3
        d4 == IF has_thread
              THEN Set(Pop(d3, "thread"), "thread_channel_id", d3.thread.id)
              ELSE d3
    IN  [data |-> d4, w |-> w4]

\* cache.place_message_data: decompose, then construct the Message or merge
\* into the cached one, under <<channel id, message id>>
place_message_data(w, data) ==
    LET pd == _process_dict(w, data)
        key == <<data.channel_id, data.id>>
    IN  Written([pd.w EXCEPT !.message_cache = Put(@, key, pd.data)],
                "message", key, pd.data)

\* a message payload reaches the cache. An author without "id" makes
\* place_user_data raise on the first line of _process_dict, before anything
\* is written
message_create(data) ==
    /\ CanDeliver
    /\ IF "author" \in DOMAIN data /\ "id" \notin DOMAIN data.author
       THEN Raise("message", data)
       ELSE /\ SetWorld(place_message_data(World, data))
            /\ tasks' = Append(tasks, Task("message", data, "done", None))
            /\ UNCHANGED <<user_guild_ids, guild_event, dispatched>>
    /\ UNCHANGED other_vars

PlainMessage ==
    [id |-> 900, channel_id |-> 100, content |-> "hi",
     author |-> [id |-> 7, username |-> "a"]]

GuildMessage ==
    [id |-> 901, channel_id |-> 100, guild_id |-> 42, content |-> "yo",
     author |-> [id |-> 8, username |-> "b"], member |-> [nick |-> "b"],
     mentions |-> <<[id |-> 7, username |-> "a", member |-> [nick |-> "a"]],
                    [id |-> 9, username |-> "c"]>>]

ReplyMessage ==
    [id |-> 902, channel_id |-> 100, guild_id |-> 42, content |-> "re",
     author |-> [id |-> 7, username |-> "a"],
     referenced_message |-> [id |-> 900, channel_id |-> 100, content |-> "hi",
                             author |-> [id |-> 9, username |-> "c"]],
     thread |-> [id |-> 110, type |-> "thread"]]

MessagePayloads == {PlainMessage, GuildMessage, ReplyMessage}

\* a message of a webhook: its author has no id of its own
AnonMessage ==
    [id |-> 903, channel_id |-> 100, content |-> "hook",
     author |-> [username |-> "webhook"]]

\* a reply to a reply: the referenced message embeds its referenced message
NestedReply ==
    [id |-> 904, channel_id |-> 100, content |-> "re re",
     author |-> [id |-> 8, username |-> "b"],
     referenced_message |->
        [id |-> 902, channel_id |-> 100, content |-> "re",
         author |-> [id |-> 7, username |-> "a"],
         referenced_message |-> [id |-> 900, channel_id |-> 100,
                                 content |-> "hi",
                                 author |-> [id |-> 9, username |-> "c"]]]]

DecomposedPayloads == {PlainMessage, ReplyMessage, AnonMessage, NestedReply}

\* message payloads of every shape decomposed into the cache
NextDecomp ==
    \/ \E data \in {ExamplePayload} : _on_raw_guild_create(data)
    \/ \E data \in DecomposedPayloads : message_create(data)

SpecDecomp == Init /\ [][NextDecomp]_vars

\* guild and message payloads decomposed into the cache
NextMsg ==
    \/ \E data \in CreatePayloads : _on_raw_guild_create(data)
    \/ \E n \in 1..Len(tasks) : guild_create_resume(n)
    \/ \E guild_id \in GuildIds : member_chunks_complete(guild_id)
    \/ \E data \in UpdatePayloads : _on_raw_guild_update(data)
    \/ \E n \in 1..Len(tasks) : fetch_guild_response(n)
    \/ \E n \in 1..Len(tasks) : fetch_guild_error(n)
    \/ \E data \in MessagePayloads : message_create(data)

SpecMsg == Init /\ [][NextMsg]_vars

\* --------------------------------------------------------------- accessors

\* an optional record is <<>> when absent and <<record>> when present; a
\* view is the sequence of the records it yields

\* cache.get_channel and its like: the stored record, or absent
get_channel(w, channel_id) ==
    IF channel_id \in DOMAIN w.channel_cache
    THEN <<w.channel_cache[channel_id]>> ELSE <<>>

get_user(w, user_id) ==
    IF user_id \in DOMAIN w.user_cache THEN <<w.user_cache[user_id]>> ELSE <<>>

get_member(w, guild_id, user_id) ==
    IF guild_id \in DOMAIN w.member_cache
    THEN IF user_id \in DOMAIN w.member_cache[guild_id]
         THEN <<w.member_cache[guild_id][user_id]>> ELSE <<>>
    ELSE <<>>

get_role(w, guild_id, role_id) ==
    IF guild_id \in DOMAIN w.role_cache
    THEN IF role_id \in DOMAIN w.role_cache[guild_id]
         THEN <<w.role_cache[guild_id][role_id]>> ELSE <<>>
    ELSE <<>>

get_message(w, channel_id, message_id) ==
    IF <<channel_id, message_id>> \in DOMAIN w.message_cache
    THEN <<w.message_cache[<<channel_id, message_id>>]>> ELSE <<>>

\* the fields of the Guild object behind a reference, absent for None
Deref(w, ref) == IF ref = None THEN <<>> ELSE <<w.heap[ref].data>>

\* the user the client is logged in as (self._client.user.id)
client_user_id == 7

\* BaseMessage.guild
message_guild(w, m) == Deref(w, get_guild(w, Get(m, "guild_id", None)))

\* BaseMessage.author: the member of the guild if there is one, else the
\* user; MISSING without an author id
message_author(w, m) ==
    LET author_id == Get(m, "author_id", MISSING)
        guild_id == Get(m, "guild_id", None)
        member == IF guild_id # None
                  THEN get_member(w, guild_id, author_id) ELSE <<>>
    IN  IF author_id \in {MISSING, None} THEN <<>>
        ELSE IF Len(member) > 0 THEN member ELSE get_user(w, author_id)

\* BaseMessage.channel: without a guild id and without a cached channel, a
\* DM channel is built on the spot from the channel id, with the author as
\* its recipient if the author resolves
message_channel(w, m) ==
    LET channel == get_channel(w, m.channel_id)
        author == message_author(w, m)
        dm == [id |-> m.channel_id, type |-> "DM"]
    IN  IF Get(m, "guild_id", None) = None /\ Len(channel) = 0
        THEN IF Len(author) > 0
             THEN <<Set(dm, "recipients", author)>> ELSE <<dm>>
        ELSE channel

\* BaseMessage.thread
base_message_thread(w, m) ==
    get_channel(w, Get(m, "thread_channel_id", None))

\* Message.thread: the thread started from a message has the message's id
message_thread(w, m) == get_channel(w, m.id)

\* Message.get_referenced_message
get_referenced_message(w, m) ==
    IF Get(m, "referenced_message_id", None) = None
    THEN <<>>
    ELSE get_message(w, m.channel_id, m.referenced_message_id)

\* AutoModRule.creator and AutoModRule.guild
auto_mod_creator(w, rule) == get_member(w, rule.guild_id, rule.creator_id)

auto_mod_guild(w, rule) == Deref(w, get_guild(w, rule.guild_id))

RECURSIVE Flatten(_)
Flatten(seqs) ==
    IF Len(seqs) = 0 THEN <<>> ELSE Head(seqs) \o Flatten(Tail(seqs))

\* CacheView: iterating resolves the ids one after the other and yields what
\* resolves; `lookups` is what the method of the view gives for each id
CacheView(lookups) == Flatten(lookups)

\* CacheProxy read synchronously: what its method gives for its id
CacheProxy(lookup) == lookup

\* Guild.channels, threads, members, roles, me and owner of the Guild object g
channels(w, g) ==
    LET ids == Get(w.heap[g].data, "channel_ids", <<>>)
    IN  CacheView([i \in 1..Len(ids) |-> get_channel(w, ids[i])])

\* mutant of threads: the view built over the channel ids
threads_of_channels(w, g) == channels(w, g)

threads(w, g) ==
    LET ids == Get(w.heap[g].data, "thread_ids", <<>>)
    IN  CacheView([i \in 1..Len(ids) |-> get_channel(w, ids[i])])

members(w, g) ==
    LET ids == Get(w.heap[g].data, "member_ids", <<>>)
    IN  CacheView([i \in 1..Len(ids) |->
                      get_member(w, w.heap[g].data.id, ids[i])])

roles(w, g) ==
    LET ids == Get(w.heap[g].data, "role_ids", <<>>)
    IN  CacheView([i \in 1..Len(ids) |-> get_role(w, w.heap[g].data.id, ids[i])])

me(w, g) == CacheProxy(get_member(w, w.heap[g].data.id, client_user_id))

owner(w, g) ==
    CacheProxy(get_member(w, w.heap[g].data.id,
                          Get(w.heap[g].data, "owner_id", None)))

MessageAccessors ==
    {"guild", "channel", "author", "thread", "base_thread",
     "get_referenced_message"}

GuildAccessors == {"channels", "threads", "members", "roles", "me", "owner"}

RuleAccessors == {"creator", "guild"}

\* the auto moderation rules the application holds
AutoModRules ==
    {[guild_id |-> 42, creator_id |-> 7], [guild_id |-> 43, creator_id |-> 8]}

\* what a synchronous accessor leaves alone: everything but its result
read_unchanged ==
    UNCHANGED <<fetch_members, player_vars, call, world_vars, user_guild_ids,
                guild_event, tasks, dispatched>>

\* the application reads an accessor of a cached message
read_message(key, name) ==
    LET m == message_cache[key]
        result == CASE name = "guild" -> message_guild(World, m)
                    [] name = "channel" -> message_channel(World, m)
                    [] name = "author" -> message_author(World, m)
                    [] name = "thread" -> message_thread(World, m)
                    [] name = "base_thread" -> base_message_thread(World, m)
                    [] name = "get_referenced_message" ->
                           get_referenced_message(World, m)
    IN  /\ read' = [accessor |-> name, result |-> result]
        /\ read_unchanged

\* the application reads a view of a Guild object it holds, cached or not
read_guild(g, name) ==
    LET result == CASE name = "channels" -> channels(World, g)
                    [] name = "threads" -> threads(World, g)
                    [] name = "members" -> members(World, g)
                    [] name = "roles" -> roles(World, g)
                    [] name = "me" -> me(World, g)
                    [] name = "owner" -> owner(World, g)
    IN  /\ read' = [accessor |-> name, result |-> result]
        /\ read_unchanged

\* the application reads an accessor of an auto moderation rule
read_rule(rule, name) ==
    LET result == CASE name = "creator" -> auto_mod_creator(World, rule)
                    [] name = "guild" -> auto_mod_guild(World, rule)
    IN  /\ read' = [accessor |-> name, result |-> result]
        /\ read_unchanged

\* payloads decomposed into the cache, guilds deleted from it, and the
\* application reading in between
NextRead ==
    \/ \E data \in {ExamplePayload, FullPayload} : _on_raw_guild_create(data)
    \/ \E data \in {[id |-> 42]} : _on_raw_guild_delete(data)
    \/ \E data \in {PlainMessage, ReplyMessage} : message_create(data)
    \/ \E key \in DOMAIN message_cache, name \in MessageAccessors :
          read_message(key, name)
    \/ \E g \in 1..Len(heap), name \in GuildAccessors : read_guild(g, name)
    \/ \E rule \in AutoModRules, name \in RuleAccessors : read_rule(rule, name)

SpecRead == Init /\ [][NextRead]_vars

\* ------------------------------------------------- asynchronous accessors

\* what the origin answers to a fetch of a message
OriginMessage(channel_id, message_id) ==
    [id |-> message_id, channel_id |-> channel_id, content |-> "origin",
     author |-> [id |-> 9, username |-> "c"]]

\* cache.delete_message: the message dropped from the cache
delete_message(w, channel_id, message_id) ==
    [w EXCEPT !.message_cache =
        [k \in DOMAIN @ \ {<<channel_id, message_id>>} |-> @[k]]]

\* MESSAGE_DELETE: the message is evicted
message_delete(data) ==
    /\ CanDeliver
    /\ <<data.channel_id, data.id>> \in DOMAIN message_cache
    /\ SetWorld(delete_message(World, data.channel_id, data.id))
    /\ tasks' = Append(tasks, Task("message_delete", data, "done", None))
    /\ UNCHANGED <<other_vars, user_guild_ids, guild_event, dispatched>>

\* what a call of an asynchronous accessor leaves alone
fetch_unchanged ==
    UNCHANGED <<fetch_members, player_vars, call, user_guild_ids,
                guild_event, dispatched>>

\* mutant of fetch_referenced_message: the message looked up with
\* cache.get_message
fetch_referenced_message_get(key) ==
    LET m == message_cache[key]
    IN  /\ CanDeliver
        /\ tasks' = Append(tasks, Task("fetch_referenced_message", m, "done", None))
        /\ read' = [accessor |-> "fetch_referenced_message",
                    result |-> get_referenced_message(World, m)]
        /\ UNCHANGED world_vars
        /\ fetch_unchanged

\* Message.fetch_referenced_message called on a cached message: None without
\* a referenced message id; else cache.fetch_message answers from the cache,
\* or suspends on a request to the origin
fetch_referenced_message(key) ==
    LET m == message_cache[key]
        found == get_referenced_message(World, m)
        pc == IF Get(m, "referenced_message_id", None) # None /\ Len(found) = 0
              THEN "fetch" ELSE "done"
    IN  /\ CanDeliver
        /\ tasks' = Append(tasks, Task("fetch_referenced_message", m, pc, None))
        /\ read' = IF pc = "done"
                   THEN [accessor |-> "fetch_referenced_message", result |-> found]
                   ELSE read
        /\ UNCHANGED world_vars
        /\ fetch_unchanged

\* the origin answers: fetch_message places the answer and returns the
\* Message made of it
fetch_message_response(n) ==
    LET m == tasks[n].data
        placed == place_message_data(World,
                      OriginMessage(m.channel_id, m.referenced_message_id))
    IN  /\ Running
        /\ tasks[n].kind = "fetch_referenced_message"
        /\ tasks[n].pc = "fetch"
        /\ SetWorld(placed)
        /\ tasks' = [tasks EXCEPT ![n].pc = "done"]
        /\ read' = [accessor |-> "fetch_referenced_message",
                    result |-> get_message(placed, m.channel_id,
                                           m.referenced_message_id)]
        /\ fetch_unchanged

\* the messages MESSAGE_DELETE names
MessageDeletePayloads ==
    {[id |-> 900, channel_id |-> 100], [id |-> 902, channel_id |-> 100]}

\* guilds and messages cached, evicted and fetched on a miss
NextFetch ==
    \/ \E data \in {ExamplePayload} : _on_raw_guild_create(data)
    \/ \E data \in UpdatePayloads : _on_raw_guild_update(data)
    \/ \E n \in 1..Len(tasks) : fetch_guild_response(n)
    \/ \E n \in 1..Len(tasks) : fetch_guild_error(n)
    \/ \E data \in {PlainMessage, ReplyMessage} : message_create(data)
    \/ \E data \in MessageDeletePayloads : message_delete(data)
    \/ \E key \in DOMAIN message_cache : fetch_referenced_message(key)
    \/ \E n \in 1..Len(tasks) : fetch_message_response(n)

SpecFetch == Init /\ [][NextFetch]_vars

\* ------------------------------------------------------------ cancellation

\* a suspended processor or accessor is cancelled: CancelledError is raised
\* at its await and nothing after the await runs
cancel(n) ==
    /\ Running
    /\ tasks[n].pc \in {"chunk", "fetch"}
    /\ tasks' = [tasks EXCEPT ![n].pc = "cancelled"]
    /\ UNCHANGED <<other_vars, world_vars, user_guild_ids, guild_event,
                   dispatched>>

\* processors and accessors that suspend, are resumed or are cancelled
NextCancel ==
    \/ NextFetch
    \/ \E n \in 1..Len(tasks) : guild_create_resume(n)
    \/ \E guild_id \in GuildIds : member_chunks_complete(guild_id)
    \/ \E n \in 1..Len(tasks) : cancel(n)

SpecCancel == Init /\ [][NextCancel]_vars

\* ------------------------------------------------------------ voice player

\* what the player and its callers leave alone
client_vars == <<fetch_members, read, call, world_vars, user_guild_ids, guild_event,
                 tasks, dispatched>>

\* Condition.notify under `with self._cond`: whoever waits is woken
notify == [_cond EXCEPT !.waiting = FALSE]

\* Player.play (lines 83-87): the thread is started with the stop event
\* cleared and the resume event set. The source the player was made with is
\* a locked stream or not.
play ==
    /\ player = "new"
    /\ _stop_event' = FALSE
    /\ _resume' = TRUE
    /\ player' = "L99"
    /\ \E locked_stream \in BOOLEAN :
        current_audio' = [current_audio EXCEPT !.locked_stream = locked_stream]
    /\ UNCHANGED <<_stopped, ready, _cond, wait_for, caller,
                   loop_calls, client_vars>>

\* Player.stop, line 54: the stop event is set
stop_set ==
    /\ caller = "idle"
    /\ _stop_event' = TRUE
    /\ caller' = "L55"
    /\ UNCHANGED <<player, _resume, _stopped, ready, _cond, wait_for,
                   current_audio, loop_calls, client_vars>>

\* mutant of stop_notify: stop() returns without notifying the condition
stop_notify_skip ==
    /\ caller = "L55"
    /\ caller' = "idle"
    /\ UNCHANGED <<player, _resume, _stop_event, _stopped, ready, _cond,
                   wait_for, current_audio, loop_calls, client_vars>>

\* Player.stop, lines 55-56: the condition is notified under its lock
stop_notify ==
    /\ caller = "L55"
    /\ ~_cond.held
    /\ _cond' = notify
    /\ caller' = "idle"
    /\ UNCHANGED <<player, _resume, _stop_event, _stopped, ready, wait_for,
                   current_audio, loop_calls, client_vars>>

\* Player.resume, line 60: the resume event is set
resume_set ==
    /\ caller = "idle"
    /\ _resume' = TRUE
    /\ caller' = "L61"
    /\ UNCHANGED <<player, _stop_event, _stopped, ready, _cond, wait_for,
                   current_audio, loop_calls, client_vars>>

\* Player.resume, lines 61-62: the condition is notified under its lock
resume_notify ==
    /\ caller = "L61"
    /\ ~_cond.held
    /\ _cond' = notify
    /\ caller' = "idle"
    /\ UNCHANGED <<player, _resume, _stop_event, _stopped, ready, wait_for,
                   current_audio, loop_calls, client_vars>>

\* Player.pause (lines 69-71): the resume event is cleared, no lock is taken
pause ==
    /\ caller = "idle"
    /\ _resume' = FALSE
    /\ UNCHANGED <<player, _stop_event, _stopped, ready, _cond, wait_for,
                   current_audio, caller, loop_calls, client_vars>>

\* the voice socket becomes ready and notifies the condition it was given
\* by Player.__enter__ (line 49)
ws_ready_set ==
    /\ ~ready
    /\ ~_cond.held
    /\ ready' = TRUE
    /\ _cond' = notify
    /\ UNCHANGED <<player, _resume, _stop_event, _stopped, wait_for,
                   current_audio, caller, loop_calls, client_vars>>

\* the voice socket loses its connection
ws_ready_clear ==
    /\ ready
    /\ ready' = FALSE
    /\ UNCHANGED <<player, _resume, _stop_event, _stopped, _cond, wait_for,
                   current_audio, caller, loop_calls, client_vars>>

\* the audio source has nothing more to buffer
audio_complete ==
    /\ ~current_audio.complete
    /\ current_audio' = [current_audio EXCEPT !.complete = TRUE]
    /\ UNCHANGED <<player, _resume, _stop_event, _stopped, ready, _cond,
                   wait_for, caller, loop_calls, client_vars>>

\* the player thread moves on and touches nothing but its own position
goto(line) ==
    /\ player' = line
    /\ UNCHANGED <<_resume, _stop_event, _stopped, ready, _cond, wait_for,
                   current_audio, caller, loop_calls, client_vars>>

\* Player.run, lines 89-104: the thread starts, clears the stopped event and
\* hands speaking(True) to the event loop
run_L99 ==
    /\ player = "L99"
    /\ player' = "L106"
    /\ _stopped' = FALSE
    /\ loop_calls' = loop_calls \cup {"speaking(True)"}
    /\ UNCHANGED <<_resume, _stop_event, ready, _cond, wait_for,
                   current_audio, caller, client_vars>>

\* line 106: while not self._stop_event.is_set()
run_L106 ==
    /\ player = "L106"
    /\ goto(IF _stop_event THEN "L145" ELSE "L107")

\* line 107, left operand: not self.state.ws.ready.is_set()
run_L107 ==
    /\ player = "L107"
    /\ goto(IF ~ready THEN "L112" ELSE "L107b")

\* line 107, right operand: not self._resume.is_set()
run_L107b ==
    /\ player = "L107b"
    /\ goto(IF ~_resume THEN "L112" ELSE "L129")

\* lines 108-114: speaking(False) handed to the event loop, wait_for = []
\* and the voice socket appended if not ready
run_L112 ==
    /\ player = "L112"
    /\ player' = "L115"
    /\ loop_calls' = loop_calls \cup {"speaking(False)"}
    /\ wait_for' = IF ~ready THEN {"ready"} ELSE {}
    /\ UNCHANGED <<_resume, _stop_event, _stopped, ready, _cond,
                   current_audio, caller, client_vars>>

\* lines 115-116: the resume event appended if not set
run_L115 ==
    /\ player = "L115"
    /\ player' = "L118"
    /\ wait_for' = IF ~_resume THEN wait_for \cup {"_resume"} ELSE wait_for
    /\ UNCHANGED <<_resume, _stop_event, _stopped, ready, _cond,
                   current_audio, caller, loop_calls, client_vars>>

\* mutant of run_L118: the loop goes on without the lock of the condition
run_L118_unlocked ==
    /\ player \in {"L118", "woken"}
    /\ goto("L119")

\* line 118, and the return of wait(): the lock of the condition is taken
run_L118 ==
    /\ player \in {"L118", "woken"}
    /\ ~_cond.held
    /\ player' = "L119"
    /\ _cond' = [_cond EXCEPT !.held = TRUE]
    /\ UNCHANGED <<_resume, _stop_event, _stopped, ready, wait_for,
                   current_audio, caller, loop_calls, client_vars>>

\* all(x.is_set() for x in wait_for)
all_set ==
    /\ "ready" \in wait_for => ready
    /\ "_resume" \in wait_for => _resume

\* line 119: the wait is over, the lock is released; or the loop goes on to
\* wait, still holding the lock
run_L119 ==
    /\ player = "L119"
    /\ IF _stop_event \/ all_set
       THEN /\ player' = "L121"
            /\ _cond' = [_cond EXCEPT !.held = FALSE]
       ELSE /\ player' = "L120"
            /\ UNCHANGED _cond
    /\ UNCHANGED <<_resume, _stop_event, _stopped, ready, wait_for,
                   current_audio, caller, loop_calls, client_vars>>

\* line 120: wait() releases the lock and the thread waits to be notified
run_L120 ==
    /\ player = "L120"
    /\ player' = "waiting"
    /\ _cond' = [held |-> FALSE, waiting |-> TRUE]
    /\ UNCHANGED <<_resume, _stop_event, _stopped, ready, wait_for,
                   current_audio, caller, loop_calls, client_vars>>

\* the thread has been notified and leaves the wait
run_notified ==
    /\ player = "waiting"
    /\ ~_cond.waiting
    /\ goto("woken")

\* lines 121-127: back to the head of the loop if stopped, else speaking()
\* is handed to the event loop and the thread goes on to play
run_L121 ==
    /\ player = "L121"
    /\ player' = IF _stop_event THEN "L106" ELSE "L129"
    /\ loop_calls' = IF _stop_event THEN loop_calls
                     ELSE loop_calls \cup {"speaking(True)"}
    /\ UNCHANGED <<_resume, _stop_event, _stopped, ready, _cond, wait_for,
                   current_audio, caller, client_vars>>

\* lines 129-136: a frame is read and sent, or silence is sent while the
\* source has more to come, or the source is over and the loop is left
run_L129 ==
    /\ player = "L129"
    /\ IF current_audio.frames > 0
       THEN /\ current_audio' = [current_audio EXCEPT !.frames = @ - 1]
            /\ player' = "L138"
       ELSE /\ player' = IF current_audio.locked_stream \/ ~current_audio.complete
                          THEN "L138" ELSE "L145"
            /\ UNCHANGED current_audio
    /\ UNCHANGED <<_resume, _stop_event, _stopped, ready, _cond, wait_for,
                   caller, loop_calls, client_vars>>

\* lines 129-133: current_audio.read raises, or send_packet raises on the
\* frame that was read or on the silence: the finally block is entered with
\* the exception in flight
run_L129_raise ==
    /\ player = "L129"
    /\ player' = "L145e"
    /\ \/ UNCHANGED current_audio
       \/ /\ current_audio.frames > 0
          /\ current_audio' = [current_audio EXCEPT !.frames = @ - 1]
    /\ UNCHANGED <<_resume, _stop_event, _stopped, ready, _cond, wait_for,
                   caller, loop_calls, client_vars>>

\* lines 138-143: the packet is counted and the thread sleeps until the next
\* one is due
run_L138 ==
    /\ player = "L138"
    /\ goto("L106")

\* mutant of run_L145: the thread ends without its finally block
run_L145_bare ==
    /\ player \in {"L145", "L145e"}
    /\ goto("exited")

\* lines 144-147, the finally block: speaking(False) is handed to the event
\* loop, the source is cleaned up and self._stopped.set is handed to the
\* event loop; an exception in flight then ends the thread
run_L145 ==
    /\ player \in {"L145", "L145e"}
    /\ player' = "exited"
    /\ loop_calls' = loop_calls \cup {"speaking(False)", "_stopped.set"}
    /\ current_audio' = [current_audio EXCEPT !.cleanups = @ + 1]
    /\ UNCHANGED <<_resume, _stop_event, _stopped, ready, _cond, wait_for,
                   caller, client_vars>>

\* the event loop runs one of the calls it was handed: a speaking coroutine,
\* or self._stopped.set()
loop_run ==
    \E c \in loop_calls :
        /\ loop_calls' = loop_calls \ {c}
        /\ _stopped' = IF c = "_stopped.set" THEN TRUE ELSE _stopped
        /\ UNCHANGED <<player, _resume, _stop_event, ready, _cond, wait_for,
                       current_audio, caller, client_vars>>

\* the steps of the player thread
run ==
    \/ run_L99 \/ run_L106 \/ run_L107 \/ run_L107b \/ run_L112 \/ run_L115
    \/ run_L118 \/ run_L119 \/ run_L120 \/ run_notified \/ run_L121
    \/ run_L129 \/ run_L129_raise \/ run_L138 \/ run_L145

NextPlayer ==
    \/ play
    \/ stop_set
    \/ stop_notify
    \/ resume_set
    \/ resume_notify
    \/ pause
    \/ ws_ready_set
    \/ ws_ready_clear
    \/ audio_complete
    \/ run
    \/ loop_run

SpecPlayer == Init /\ [][NextPlayer]_vars

\* the scheduler lets the player thread run, a call of stop() or resume()
\* runs to its end, and the event loop runs the callbacks it is handed
PlayerFairness ==
    /\ WF_vars(run)
    /\ WF_vars(stop_notify)
    /\ WF_vars(resume_notify)
    /\ WF_vars(loop_run)

SpecPlayerFair == Init /\ [][NextPlayer]_vars /\ PlayerFairness

\* ----------------------------------------------------- application commands

\* what a call of an application command function leaves alone
command_unchanged ==
    UNCHANGED <<fetch_members, read, player_vars, world_vars, user_guild_ids,
                guild_event, tasks, dispatched>>

\* OptionTypes (an IntEnum)
OptionTypes ==
    [SUB_COMMAND |-> 1, SUB_COMMAND_GROUP |-> 2, STRING |-> 3, INTEGER |-> 4,
     BOOLEAN |-> 5, USER |-> 6, CHANNEL |-> 7, ROLE |-> 8, MENTIONABLE |-> 9,
     NUMBER |-> 10, ATTACHMENT |-> 11]

\* the classes from_type is given, and the classes each one derives from,
\* itself included (bool derives from int in Python)
Types ==
    {"str", "StrEnum", "int", "IntEnum", "bool", "float", "BaseUser", "User",
     "BaseChannel", "GuildText", "Role", "dict"}

Mro(t) ==
    CASE t = "StrEnum" -> {"StrEnum", "str"}
      [] t = "IntEnum" -> {"IntEnum", "int"}
      [] t = "bool" -> {"bool", "int"}
      [] t = "User" -> {"User", "BaseUser"}
      [] t = "GuildText" -> {"GuildText", "BaseChannel"}
      [] OTHER -> {t}

issubclass(t, base) == base \in Mro(t)

\* OptionTypes.from_type: the first test that passes decides; None when
\* none does
from_type(t) ==
    IF issubclass(t, "str") THEN OptionTypes.STRING
    ELSE IF issubclass(t, "int") THEN OptionTypes.INTEGER
    ELSE IF issubclass(t, "bool") THEN OptionTypes.BOOLEAN
    ELSE IF issubclass(t, "BaseUser") THEN OptionTypes.USER
    ELSE IF issubclass(t, "BaseChannel") THEN OptionTypes.CHANNEL
    ELSE IF issubclass(t, "Role") THEN OptionTypes.ROLE
    ELSE IF issubclass(t, "float") THEN OptionTypes.NUMBER
    ELSE None

call_from_type(t) ==
    /\ call = NoCall
    /\ call' = [fn |-> "from_type", t |-> t, result |-> from_type(t)]
    /\ command_unchanged

\* The empty dict {} as a value of a localisation field; None is the
\* missing table and 2 a table with one translation.
EmptyDict == 1

command_lookup ==
    << <<"name", "name", "">>,
       <<"description", "description", "">>,
       <<"default_member_permissions", "default_member_permissions", None>>,
       <<"dm_permission", "dm_permission", TRUE>>,
       <<"name_localized", "name_localizations", None>>,
       <<"description_localized", "description_localizations", None>> >>

_compare_commands(local_cmd, remote_cmd) ==
    \A i \in DOMAIN command_lookup :
        Get(local_cmd, command_lookup[i][1], command_lookup[i][3])
            = Get(remote_cmd, command_lookup[i][2], command_lookup[i][3])

options_lookup ==
    << <<"name", "name", "">>,
       <<"description", "description", "">>,
       <<"required", "required", FALSE>>,
       <<"autocomplete", "autocomplete", FALSE>>,
       <<"name_localized", "name_localizations", None>>,
       <<"description_localized", "description_localizations", None>>,
       <<"choices", "choices", <<>> >>,
       <<"max_value", "max_value", None>>,
       <<"min_value", "min_value", None>>,
       <<"max_length", "max_length", None>>,
       <<"min_length", "max_length", None>> >>

\* post_process["choices"]: a two-key choice gets an empty table of
\* name localisations.
post_process_choices(l) ==
    [i \in DOMAIN l |->
        IF Cardinality(DOMAIN l[i]) = 2
        THEN [name_localizations |-> EmptyDict] @@ l[i]
        ELSE l[i]]

post_process(remote_name, value) ==
    IF remote_name = "choices" THEN post_process_choices(value) ELSE value

RECURSIVE _compare_options(_, _)
_compare_options(local_opt_list, remote_opt_list) ==
    IF local_opt_list = remote_opt_list THEN TRUE
    ELSE IF Len(local_opt_list) # Len(remote_opt_list) THEN FALSE
    ELSE \A i \in DOMAIN local_opt_list :
        LET local_option == local_opt_list[i]
            remote_option == remote_opt_list[i]
        IN  IF local_option.type # remote_option.type THEN FALSE
            ELSE IF local_option.type
                    \in {OptionTypes.SUB_COMMAND_GROUP, OptionTypes.SUB_COMMAND}
            THEN /\ _compare_commands(local_option, remote_option)
                 /\ _compare_options(Get(local_option, "options", <<>>),
                                     Get(remote_option, "options", <<>>))
            ELSE \A j \in DOMAIN options_lookup :
                    Get(local_option, options_lookup[j][1], options_lookup[j][3])
                        = post_process(options_lookup[j][2],
                            Get(remote_option, options_lookup[j][2],
                                options_lookup[j][3]))

\* `not remote_cmd` holds for None and for the empty dict, both written <<>>.
sync_needed(local_cmd, remote_cmd) ==
    IF DOMAIN remote_cmd = {} THEN TRUE
    ELSE IF ~_compare_commands(local_cmd, remote_cmd) THEN TRUE
    ELSE IF remote_cmd.type = "CHAT_INPUT"
    THEN IF "options" \in DOMAIN local_cmd /\ "options" \in DOMAIN remote_cmd
         THEN ~_compare_options(local_cmd.options, remote_cmd.options)
         ELSE "options" \in DOMAIN local_cmd \/ "options" \in DOMAIN remote_cmd
    ELSE FALSE

\* SlashCommandOption.as_dict: every attribute, the choices as dicts and the
\* two localisation tables.
as_dict(name, type, required, min_value, max_value, min_length, max_length) ==
    [name |-> name, type |-> type, description |-> "No Description Set",
     required |-> required, autocomplete |-> FALSE, choices |-> <<>>,
     channel_types |-> None, min_value |-> min_value, max_value |-> max_value,
     min_length |-> min_length, max_length |-> max_length,
     name_localizations |-> None, description_localizations |-> None]

LocalOptions ==
    { as_dict("text", OptionTypes.STRING, TRUE, None, None, None, None),
      as_dict("text", OptionTypes.STRING, TRUE, None, None, 1, 5),
      as_dict("text", OptionTypes.STRING, TRUE, None, None, 5, 5),
      as_dict("count", OptionTypes.INTEGER, FALSE, 1, 9, None, None) }

\* InteractionCommand.to_dict of a slash command with one option.
LocalCommand(option) ==
    [name |-> "echo", description |-> "Repeat", type |-> "CHAT_INPUT",
     default_member_permissions |-> None, dm_permission |-> TRUE,
     name_localizations |-> None, description_localizations |-> None,
     options |-> <<option>>]

LocalCommands == { LocalCommand(o) : o \in LocalOptions }

\* What the API sends back for an option: null fields are left out.
Sent(d) ==
    LET kept == {"name", "type", "description", "required"}
                \cup {k \in {"min_value", "max_value", "min_length", "max_length"} :
                        d[k] # None}
    IN  [k \in kept |-> d[k]]

\* The registered command the API returns for a local command: the fields
\* that were sent and the id the API gave it.
Registered(local_cmd) ==
    [name |-> local_cmd.name, description |-> local_cmd.description,
     type |-> local_cmd.type, id |-> 77,
     default_member_permissions |-> local_cmd.default_member_permissions,
     dm_permission |-> local_cmd.dm_permission,
     options |-> [i \in DOMAIN local_cmd.options |-> Sent(local_cmd.options[i])]]

RemoteCommands ==
    { Registered(c) : c \in LocalCommands }
        \cup { [Registered(c) EXCEPT !.description = "Other"] : c \in LocalCommands }

call_sync_needed(local_cmd, remote_cmd) ==
    /\ call = NoCall
    /\ call' = [fn |-> "sync_needed", local_cmd |-> local_cmd,
                remote_cmd |-> remote_cmd,
                result |-> sync_needed(local_cmd, remote_cmd)]
    /\ command_unchanged

\* The most options a slash command may hold, scaled down from the
\* library's constant.
SLASH_CMD_MAX_OPTIONS == 2

\* An option is read here by its `required` flag only.
Options == {[required |-> TRUE], [required |-> FALSE]}

OptionLists(n) == UNION {[1..k -> Options] : k \in 0..n}

\* sorted(value, key=required, reverse=True): a stable sort, the required
\* options first.
sorted_by_required(value) ==
    SelectSeq(value, LAMBDA x : x.required) \o SelectSeq(value, LAMBDA x : ~x.required)

\* TRUE when the validator raises ValueError for the list.
options_validator(value) ==
    /\ value # <<>>
    /\ \/ Len(value) > SLASH_CMD_MAX_OPTIONS
       \/ value # sorted_by_required(value)

\* The decorators of a callback, written top to bottom, are applied bottom
\* to top and each inserts its option at the head of callback.options.
RECURSIVE slash_option(_)
slash_option(decorators) ==
    IF decorators = <<>> THEN <<>>
    ELSE <<Head(decorators)>> \o slash_option(Tail(decorators))

\* SlashCommand(options=..., callback=...): the validator of the options
\* attribute runs in the generated __init__; __attrs_post_init__ then appends
\* the annotated options in place and adds callback.options by an augmented
\* assignment, which is validated again when the class validates on
\* attribute assignment (setattr_validates).
SlashCommand(options, annotations, decorators, setattr_validates) ==
    IF options_validator(options)
    THEN [raised |-> TRUE, options |-> options]
    ELSE LET annotated == options \o annotations
             has_options == decorators # <<>>
             all == IF has_options
                    THEN annotated \o slash_option(decorators)
                    ELSE annotated
         IN  [raised |-> has_options /\ setattr_validates /\ options_validator(all),
              options |-> all]

call_SlashCommand(options, annotations, decorators, setattr_validates) ==
    /\ call = NoCall
    /\ call' = [fn |-> "SlashCommand", options |-> options,
                annotations |-> annotations, decorators |-> decorators,
                result |-> SlashCommand(options, annotations, decorators,
                                        setattr_validates)]
    /\ command_unchanged

\* The most commands in a registry handed to application_commands_to_dict.
MaxCommands == 3

\* A command object: its base, group and subcommand names ("" for none),
\* its scopes and the attributes the conversion reads.
Command(name, group_name, sub_cmd_name, description, scopes, perms, dm) ==
    [name |-> name, group_name |-> group_name, sub_cmd_name |-> sub_cmd_name,
     description |-> description, scopes |-> scopes,
     default_member_permissions |-> perms, dm_permission |-> dm]

GLOBAL_SCOPE == 0

Commands ==
    { Command("ping", "", "", "Ping here", {GLOBAL_SCOPE}, None, TRUE),
      Command("ping", "", "", "Ping there", {42}, None, TRUE),
      Command("cfg", "", "get", "Settings", {GLOBAL_SCOPE}, None, TRUE),
      Command("cfg", "admin", "set", "No Description Set", {42}, None, TRUE),
      Command("cfg", "", "lock", "No Description Set", {42}, None, FALSE),
      Command("cfg", "admin", "wipe", "No Description Set", {GLOBAL_SCOPE}, 8, TRUE) }

\* str(int(permissions)) for the permission values of Commands.
str_int(perms) == CASE perms = 8 -> "8" [] OTHER -> "0"

is_subcommand(cmd) == cmd.sub_cmd_name # ""

\* The registry argument {scope: {resolved_name: command}}, given as the
\* commands in the order they were registered: the scopes in the order of
\* their first command.
RECURSIVE Unique(_)
Unique(seq) ==
    IF seq = <<>> THEN <<>>
    ELSE LET rest == Unique(SubSeq(seq, 1, Len(seq) - 1))
             last == seq[Len(seq)]
         IN  IF \E i \in DOMAIN rest : rest[i] = last THEN rest
             ELSE Append(rest, last)

RECURSIVE ScopeOrder(_)
ScopeOrder(registry) ==
    IF registry = <<>> THEN <<>>
    ELSE LET cmd == registry[Len(registry)]
             known == ScopeOrder(SubSeq(registry, 1, Len(registry) - 1))
             new == cmd.scopes \ {known[i] : i \in DOMAIN known}
         IN  known \o (IF GLOBAL_SCOPE \in new THEN <<GLOBAL_SCOPE>> ELSE <<>>)
                   \o (IF 42 \in new THEN <<42>> ELSE <<>>)

\* for _scope, cmds in commands.items(): for cmd in cmds.values()
Items(registry) ==
    LET order == ScopeOrder(registry)
        of(s) == SelectSeq(registry, LAMBDA cmd : s \in cmd.scopes)
        F[i \in 0..Len(order)] == IF i = 0 THEN <<>> ELSE F[i - 1] \o of(order[i])
    IN  F[Len(order)]

\* cmd_bases: the base names in the order met, each with its commands.
cmd_bases_keys(registry) ==
    LET items == Items(registry)
    IN  Unique([i \in DOMAIN items |-> items[i].name])

cmd_bases(registry, cmd_name) ==
    Unique(SelectSeq(Items(registry), LAMBDA cmd : cmd.name = cmd_name))

\* InteractionCommand.to_dict and SlashCommand.to_dict
to_dict(cmd) ==
    IF is_subcommand(cmd)
    THEN [name |-> cmd.sub_cmd_name, options |-> <<>>]
    ELSE [name |-> cmd.name, description |-> cmd.description, options |-> <<>>,
          default_member_permissions |->
              IF cmd.default_member_permissions # None
              THEN str_int(cmd.default_member_permissions) ELSE "None",
          dm_permission |-> cmd.dm_permission]

squash_subcommand(subcommands) ==
    LET first == subcommands[1]
        grouped == SelectSeq(subcommands, LAMBDA c : c.group_name # "")
        group_names == Unique([i \in DOMAIN grouped |-> grouped[i].group_name])
        in_group(g) == SelectSeq(subcommands, LAMBDA c : c.group_name = g)
        groups ==
            [i \in DOMAIN group_names |->
                [name |-> group_names[i],
                 type |-> OptionTypes.SUB_COMMAND_GROUP,
                 options |->
                    [j \in DOMAIN in_group(group_names[i]) |->
                        [type |-> OptionTypes.SUB_COMMAND] @@
                            to_dict(in_group(group_names[i])[j])]]]
        plain == SelectSeq(subcommands,
                           LAMBDA c : c.group_name = "" /\ is_subcommand(c))
        sub_cmds == [i \in DOMAIN plain |->
                        [type |-> OptionTypes.SUB_COMMAND] @@ to_dict(plain[i])]
    IN  [name |-> first.name, description |-> first.description,
         options |-> groups \o sub_cmds,
         default_member_permissions |->
             IF first.default_member_permissions # None
             THEN str_int(first.default_member_permissions) ELSE "None",
         dm_permission |-> first.dm_permission]

base_description(cmd_list) ==
    LET described == SelectSeq(cmd_list,
                               LAMBDA c : c.description # "No Description Set")
    IN  IF described = <<>> THEN "No Description Set" ELSE described[1].description

\* The second loop, for one base name: whether it raises, the scopes and the
\* entry it adds to the output.
entry(cmd_list) ==
    IF \E i \in DOMAIN cmd_list : is_subcommand(cmd_list[i])
    THEN LET scopes == UNION {cmd_list[i].scopes : i \in DOMAIN cmd_list}
             base == base_description(cmd_list)
             validated == [i \in DOMAIN cmd_list |->
                            [cmd_list[i] EXCEPT !.scopes = scopes,
                                                !.description = base]]
         IN  [raised |->
                \/ \E i \in DOMAIN cmd_list :
                    cmd_list[i].default_member_permissions
                        # cmd_list[1].default_member_permissions
                \/ \E i \in DOMAIN cmd_list :
                    cmd_list[i].dm_permission # cmd_list[1].dm_permission,
              scopes |-> scopes,
              cmd_data |-> squash_subcommand(validated)]
    ELSE [raised |-> FALSE, scopes |-> cmd_list[1].scopes,
          cmd_data |-> to_dict(cmd_list[1])]

application_commands_to_dict(registry) ==
    LET keys == cmd_bases_keys(registry)
        entries == [i \in DOMAIN keys |-> entry(cmd_bases(registry, keys[i]))]
        listed(s) == SelectSeq(entries, LAMBDA e : s \in e.scopes)
    IN  IF \E i \in DOMAIN entries : entries[i].raised
        THEN [raised |-> TRUE]
        ELSE [raised |-> FALSE,
              output |->
                [s \in UNION {entries[i].scopes : i \in DOMAIN entries} |->
                    [j \in DOMAIN listed(s) |-> listed(s)[j].cmd_data]]]

Registries ==
    {r \in UNION {[1..k -> Commands] : k \in 0..MaxCommands} :
        \A i, j \in DOMAIN r : i # j => r[i] # r[j]}

call_application_commands_to_dict(registry) ==
    /\ call = NoCall
    /\ call' = [fn |-> "application_commands_to_dict", commands |-> registry,
                result |-> application_commands_to_dict(registry)]
    /\ command_unchanged

\* The call returns and the next one can be made.
call_return ==
    /\ call # NoCall
    /\ call' = NoCall
    /\ command_unchanged

NextCmd ==
    \/ call_return
    \/ \E t \in Types : call_from_type(t)
    \/ \E registry \in Registries : call_application_commands_to_dict(registry)
    \/ \E options \in OptionLists(SLASH_CMD_MAX_OPTIONS + 1),
          annotations, decorators \in OptionLists(SLASH_CMD_MAX_OPTIONS),
          setattr_validates \in BOOLEAN :
        call_SlashCommand(options, annotations, decorators, setattr_validates)
    \/ \E local_cmd \in LocalCommands, remote_cmd \in RemoteCommands :
        call_sync_needed(local_cmd, remote_cmd)
    \/ \E local_cmd \in LocalCommands : call_sync_needed(local_cmd, <<>>)

SpecCmd == Init /\ [][NextCmd]_vars

\* ------------------------------------------------------------------ claims

\* the positions of the events dispatched by the step
NewEvents == (Len(dispatched) + 1)..Len(dispatched')

\* the place_guild_data calls made by the step
NewApplied == (Len(applied) + 1)..Len(applied')

\* the processors that suspend on guild.chunk() in the step
NewWaiters ==
    {n \in 1..Len(tasks') :
        /\ tasks'[n].pc = "chunk"
        /\ n > Len(tasks)}

\* C1: with fetch_members, GuildJoin is never dispatched for a guild whose
\* chunking has not completed, and when the create processor starts to wait
\* the guild it waits for is already the record in the cache.
C1_CreateGating ==
    [][/\ \A i \in NewEvents :
            (dispatched'[i].type = "GuildJoin" /\ fetch_members)
                => heap'[dispatched'[i].guild].chunked
       /\ \A n \in NewWaiters :
            /\ ~heap'[tasks'[n].guild].chunked
            /\ get_guild(World', tasks'[n].data.id) = tasks'[n].guild
            /\ \A i \in NewEvents : dispatched'[i].task # n]_vars

\* C1 witness: a GuildJoin that was held back until the chunking completed
\* and so came after the event of a payload delivered later
C1_Witness ==
    /\ fetch_members
    /\ \E i \in 1..Len(dispatched) :
         /\ dispatched[i].type = "GuildJoin"
         /\ heap[dispatched[i].guild].chunked
         /\ \E j \in 1..(i - 1) : dispatched[j].task > dispatched[i].task

\* the payload as the store is said to keep it: each embedded list the
\* payload mentions replaced by the list of its identifiers
Normalized(data) ==
    LET rel(d, k, idk, ids) == IF k \in DOMAIN d THEN Set(Pop(d, k), idk, ids) ELSE d
        d1 == rel(data, "channels", "channel_ids", IdsOf(Get(data, "channels", <<>>)))
        d2 == rel(d1, "threads", "thread_ids", IdsOf(Get(data, "threads", <<>>)))
        d3 == rel(d2, "members", "member_ids", UserIdsOf(Get(data, "members", <<>>)))
    IN  rel(d3, "roles", "role_ids", IdsOf(Get(data, "roles", <<>>)))

\* the relation lists of a Guild that no payload has mentioned yet
\* (the attribute defaults, factory=list)
EmptyRelations ==
    [channel_ids |-> <<>>, thread_ids |-> <<>>, member_ids |-> <<>>,
     role_ids |-> <<>>]

\* the merge, in order, of the first k payloads placed into Guild `ref`
RECURSIVE MergedPayloads(_, _)
MergedPayloads(ref, k) ==
    IF k = 0 THEN EmptyRelations
    ELSE IF applied[k].guild = ref
         THEN Normalized(applied[k].data) @@ MergedPayloads(ref, k - 1)
         ELSE MergedPayloads(ref, k - 1)

\* C2: the record of a cached guild is the merge of the payloads placed into
\* it, in order; a field a later payload does not mention, the relation lists
\* included, keeps its earlier value.
C2_MergeOnOverwrite ==
    \A g \in DOMAIN guild_cache :
        heap[guild_cache[g]].data = MergedPayloads(guild_cache[g], Len(applied))

\* the elements of a list
Range(xs) == {xs[i] : i \in 1..Len(xs)}

\* xs lists exactly the identifiers of the embedded objects, in their order
ListsIds(xs, objects) ==
    /\ Len(xs) = Len(objects)
    /\ \A i \in 1..Len(objects) : xs[i] = objects[i].id

\* xs lists exactly the user identifiers of the embedded members, in order
ListsUserIds(xs, objects) ==
    /\ Len(xs) = Len(objects)
    /\ \A i \in 1..Len(objects) : xs[i] = objects[i].user.id

\* the identifiers stored under a guild in a scoped store
ScopedIds(store, guild_id) ==
    IF guild_id \in DOMAIN store THEN DOMAIN store[guild_id] ELSE {}

\* the identifiers embedded under field k in the payloads placed by the step
PlacedIds(k) ==
    UNION {{o.id : o \in Range(Get(applied'[j].data, k, <<>>))} : j \in NewApplied}

PlacedUserIds ==
    UNION {{o.user.id : o \in Range(Get(applied'[j].data, "members", <<>>))} :
              j \in NewApplied}

\* C3: a guild payload that embeds N channels, threads, members or roles
\* leaves N records of that kind in its store (and adds no other), and the
\* guild's relation field lists exactly their N identifiers in payload order.
C3_DecomposeEmbedded ==
    [][NewApplied # {} =>
        LET last == applied'[Len(applied')]
            data == last.data
            rec == heap'[last.guild].data
            g == data.id
        IN  /\ "channels" \in DOMAIN data =>
                 /\ ListsIds(rec.channel_ids, data.channels)
                 /\ Cardinality(Range(rec.channel_ids)) = Len(data.channels)
            /\ "threads" \in DOMAIN data =>
                 /\ ListsIds(rec.thread_ids, data.threads)
                 /\ Cardinality(Range(rec.thread_ids)) = Len(data.threads)
            /\ "members" \in DOMAIN data =>
                 /\ ListsUserIds(rec.member_ids, data.members)
                 /\ Cardinality(Range(rec.member_ids)) = Len(data.members)
            /\ "roles" \in DOMAIN data =>
                 /\ ListsIds(rec.role_ids, data.roles)
                 /\ Cardinality(Range(rec.role_ids)) = Len(data.roles)
            /\ DOMAIN channel_cache' =
                 DOMAIN channel_cache \cup PlacedIds("channels")
                                      \cup PlacedIds("threads")
            /\ ScopedIds(member_cache', g) =
                 ScopedIds(member_cache, g) \cup PlacedUserIds
            /\ ScopedIds(role_cache', g) =
                 ScopedIds(role_cache, g) \cup PlacedIds("roles")
            /\ \A o \in DOMAIN member_cache' \ {g} :
                 o \in DOMAIN member_cache /\ member_cache'[o] = member_cache[o]
            /\ \A o \in DOMAIN role_cache' \ {g} :
                 o \in DOMAIN role_cache /\ role_cache'[o] = role_cache[o]]_vars

\* C3 witness: the payload with two channels, one thread, two members and
\* two roles has just been decomposed
C3_Witness ==
    /\ applied # <<>>
    /\ applied[Len(applied)].data = FullPayload
    /\ heap[applied[Len(applied)].guild].data.channel_ids = <<101, 100>>
    /\ heap[applied[Len(applied)].guild].data.member_ids = <<8, 7>>
    /\ {100, 101, 110} \subseteq DOMAIN channel_cache
    /\ DOMAIN role_cache[42] = {200, 201}

\* the payloads placed into Guild `ref`, in order
AppliedTo(ref) == SelectSeq(applied, LAMBDA a : a.guild = ref)

EmbeddedFields == {"channels", "threads", "members", "roles", "emojis"}

\* C5: no field of a stored guild record holds embedded full records of
\* another entity kind.
C5_OnlyIdentifiers ==
    \A g \in DOMAIN guild_cache :
        DOMAIN heap[guild_cache[g]].data \cap EmbeddedFields = {}

\* C6: a GuildUpdate for a guild that had no record in the cache when its
\* payload arrived carries MISSING as `before`.
C6_MissingBefore ==
    \A i \in 1..Len(dispatched) :
        (/\ dispatched[i].type = "GuildUpdate"
         /\ tasks[dispatched[i].task].guild = None)
        => dispatched[i].before = MISSING

\* the relation lists Guild.process_dict writes on every payload
RelationFields == {"channel_ids", "thread_ids", "member_ids", "role_ids"}

\* C7: the GuildUpdate of an update to a cached guild carries as `before` a
\* separate object holding the record as it was right before the payload was
\* applied, and as `after` the cached Guild with the payload applied; nothing
\* changes `before` afterwards.
C7_UpdateSnapshot ==
    [][/\ \A i \in NewEvents :
            (dispatched'[i].type = "GuildUpdate" /\ dispatched'[i].task > Len(tasks))
            => LET e == dispatched'[i]
                   data == tasks'[e.task].data
                   old == get_guild(World, data.id)
               IN  /\ old # None
                   /\ e.before # MISSING
                   /\ e.before # e.after
                   /\ e.after = old
                   /\ get_guild(World', data.id) = e.after
                   /\ heap'[e.before].data = heap[old].data
                   /\ \A f \in DOMAIN data \ EmbeddedFields :
                        heap'[e.after].data[f] = data[f]
                   /\ \A f \in DOMAIN heap[old].data \ (DOMAIN data \cup RelationFields) :
                        heap'[e.after].data[f] = heap[old].data[f]
       /\ \A i \in 1..Len(dispatched) :
            (dispatched[i].type = "GuildUpdate" /\ dispatched[i].before # MISSING)
            => heap'[dispatched[i].before].data = heap[dispatched[i].before].data]_vars

\* C7 witness: an update of a cached guild renamed it, and the event holds the
\* old name in `before` and the new one in `after`
C7_Witness ==
    \E i \in 1..Len(dispatched) :
        /\ dispatched[i].type = "GuildUpdate"
        /\ tasks[dispatched[i].task].guild # None
        /\ dispatched[i].before # MISSING
        /\ "name" \in DOMAIN heap[dispatched[i].before].data
        /\ heap[dispatched[i].before].data.name = "Old"
        /\ heap[dispatched[i].after].data.name = "New"

\* the events dispatched for the n-th payload
EventsOf(n) == {i \in 1..Len(dispatched) : dispatched[i].task = n}

\* C8: a raw guild payload yields one event, of the kind of its path: GuildJoin
\* for the create path, GuildUpdate for the update path, never both and never
\* two; none while its processor is suspended or after it failed.
C8_OneEventPerPayload ==
    \A n \in 1..Len(tasks) :
        /\ Cardinality(EventsOf(n)) <= 1
        /\ tasks[n].pc = "done" => Cardinality(EventsOf(n)) = 1
        /\ tasks[n].pc # "done" => EventsOf(n) = {}
        /\ \A i \in EventsOf(n) :
             /\ tasks[n].kind = "create" => dispatched[i].type = "GuildJoin"
             /\ tasks[n].kind = "update" => dispatched[i].type = "GuildUpdate"

\* C8 witness: a create payload and an update payload have both been
\* processed to the end
C8_Witness ==
    \E n, m \in 1..Len(tasks) :
        /\ tasks[n].kind = "create" /\ tasks[n].pc = "done"
        /\ tasks[m].kind = "update" /\ tasks[m].pc = "done"
        /\ tasks[n].data.id = tasks[m].data.id

\* C9: on a guild delete without the unavailable flag, the guild is out of
\* the cache when GuildLeft is dispatched, and GuildLeft carries the Guild
\* that was cached right before, or MISSING if there was none.
C9_GuildRemoved ==
    [][\A i \in NewEvents :
          dispatched'[i].type = "GuildLeft"
          => LET e == dispatched'[i]
                 old == get_guild(World, e.guild_id)
             IN  /\ get_guild(World', e.guild_id) = None
                 /\ e.guild = IF old = None THEN MISSING ELSE old]_vars

\* C9 witness: a cached guild was removed and GuildLeft carries its record
C9_Witness ==
    \E i \in 1..Len(dispatched) :
        /\ dispatched[i].type = "GuildLeft"
        /\ dispatched[i].guild # MISSING
        /\ "owner_id" \in DOMAIN heap[dispatched[i].guild].data
        /\ get_guild(World, dispatched[i].guild_id) = None

\* C10: on a guild delete with unavailable = true, the guild record stays in
\* the cache and is marked unavailable, and GuildUnavailable carries the cached
\* Guild or MISSING.
C10_GuildUnavailable ==
    [][\A i \in NewEvents :
          dispatched'[i].type = "GuildUnavailable"
          => LET e == dispatched'[i]
                 old == get_guild(World, e.guild_id)
             IN  /\ e.guild = IF old = None THEN MISSING ELSE old
                 /\ old # None =>
                      /\ get_guild(World', e.guild_id) = old
                      /\ Get(heap'[old].data, "unavailable", FALSE)]_vars

\* the processors started by the step
NewTasks == (Len(tasks) + 1)..Len(tasks')

\* C18: a guild create, update or delete payload without its id fails that
\* one processor: it dispatches no event, writes no record and leaves the
\* guild ids of the user as they were.
C18_MalformedDropped ==
    /\ [][\A n \in NewTasks :
            (/\ tasks'[n].kind \in {"create", "update", "delete"}
             /\ "id" \notin DOMAIN tasks'[n].data)
                => /\ tasks'[n].pc = "failed"
                   /\ dispatched' = dispatched
                   /\ UNCHANGED world_vars
                   /\ user_guild_ids' = user_guild_ids]_vars
    /\ [](\A i \in 1..Len(dispatched) :
            "id" \in DOMAIN tasks[dispatched[i].task].data)

\* C18 witness: a payload without id has failed while a guild is cached and
\* the user is in a guild
C18_Witness ==
    \E n \in 1..Len(tasks) :
        /\ "id" \notin DOMAIN tasks[n].data
        /\ tasks[n].pc = "failed"
        /\ 42 \in DOMAIN guild_cache
        /\ 42 \in user_guild_ids

C20_SubEntityImmediate ==
    /\ [][\A n \in NewTasks :
            tasks'[n].kind \in SubEntityKinds
                => /\ tasks'[n].pc = "done"
                   /\ Len(dispatched') = Len(dispatched) + 1
                   /\ dispatched'[Len(dispatched')].task = n
                   /\ heap' = heap
                   /\ SubSeq(tasks', 1, Len(tasks)) = tasks
                   /\ tasks'[n].kind \in {"ban_add", "ban_remove"}
                        => tasks'[n].data.user.id \in DOMAIN user_cache'
                   /\ tasks'[n].kind = "emojis_update"
                        => \A i \in 1..Len(tasks'[n].data.emojis) :
                             tasks'[n].data.emojis[i].id \in
                                 ScopedIds(emoji_cache', tasks'[n].data.guild_id)]_vars
    /\ [](\A n \in 1..Len(tasks) :
            tasks[n].kind \in SubEntityKinds => tasks[n].pc = "done")

\* C20 witness: a ban of guild 42 stored and dispatched while the create
\* processor of guild 42 is still waiting for the chunking
C20_Witness ==
    \E n, m \in 1..Len(tasks) :
        /\ n < m
        /\ tasks[n].kind = "create"
        /\ tasks[n].pc = "chunk"
        /\ tasks[n].data.id = 42
        /\ ~heap[tasks[n].guild].chunked
        /\ tasks[m].kind = "ban_add"
        /\ tasks[m].data.guild_id = 42
        /\ \E i \in 1..Len(dispatched) :
              dispatched[i].task = m /\ dispatched[i].type = "BanCreate"
        /\ 9 \in DOMAIN user_cache

\* the sub-store of a guild in a two-level store
SubStore(store, guild_id) ==
    IF guild_id \in DOMAIN store THEN store[guild_id] ELSE EmptyStore

\* the guilds for which the step writes a guild-scoped record
ScopedWrites ==
    {writes'[j].key[1] : j \in
        {j \in (Len(writes) + 1)..Len(writes') :
            writes'[j].kind \in {"member", "role", "emoji"}}}

\* C11: the step that removes a guild leaves no member, role or emoji of
\* that guild in the cache, and the scoped records of every other guild as
\* they were; the lookups of a guild's scoped records stay empty until a
\* record of that guild is placed again.
C11_GuildDeleteScoped ==
    [][/\ \A i \in NewEvents :
            dispatched'[i].type = "GuildLeft"
                => /\ ScopedIds(member_cache', dispatched'[i].guild_id) = {}
                   /\ ScopedIds(role_cache', dispatched'[i].guild_id) = {}
                   /\ ScopedIds(emoji_cache', dispatched'[i].guild_id) = {}
                   /\ get_guild(World', dispatched'[i].guild_id) = None
                   /\ \A o \in GuildIds \ {dispatched'[i].guild_id} :
                        /\ SubStore(member_cache', o) = SubStore(member_cache, o)
                        /\ SubStore(role_cache', o) = SubStore(role_cache, o)
                        /\ SubStore(emoji_cache', o) = SubStore(emoji_cache, o)
       /\ \A g \in GuildIds \ ScopedWrites :
            /\ ScopedIds(member_cache, g) = {}
                  => ScopedIds(member_cache', g) = {}
            /\ ScopedIds(role_cache, g) = {} => ScopedIds(role_cache', g) = {}
            /\ ScopedIds(emoji_cache, g) = {}
                  => ScopedIds(emoji_cache', g) = {}]_vars

\* C11 witness: guild 42 had members, roles and emoji and was removed; none
\* of them is left
C11_Witness ==
    /\ \E i \in 1..Len(dispatched) :
          dispatched[i].type = "GuildLeft" /\ dispatched[i].guild_id = 42
    /\ \A k \in {"member", "role", "emoji"} :
          \E j \in 1..Len(writes) : writes[j].kind = k /\ writes[j].key[1] = 42
    /\ ScopedIds(member_cache, 42) = {}
    /\ ScopedIds(role_cache, 42) = {}
    /\ ScopedIds(emoji_cache, 42) = {}
    /\ get_guild(World, 42) = None

\* the processors that leave their wait for the chunking in the step
Resumed ==
    {n \in 1..Len(tasks) : tasks[n].pc = "chunk" /\ tasks'[n].pc # "chunk"}

\* C12: the create processors that wait for the chunking of a guild when it
\* is signalled all resume, each once and only after the signal, one per
\* step in whatever order; none stays suspended once its guild is chunked.
C12_WaitersReleased ==
    /\ [][\A n \in Resumed :
            /\ heap[tasks[n].guild].chunked
            /\ tasks'[n].pc = "done"
            /\ Len(dispatched') = Len(dispatched) + 1
            /\ dispatched'[Len(dispatched')] = GuildJoin(tasks[n].guild, n)]_vars
    /\ [](\A n \in 1..Len(tasks) :
            tasks[n].kind = "create" => Cardinality(EventsOf(n)) <= 1)
    /\ \A n \in 1..MaxPayloads :
            (/\ n <= Len(tasks)
             /\ tasks[n].pc = "chunk"
             /\ heap[tasks[n].guild].chunked)
                ~> (n <= Len(tasks) /\ tasks[n].pc = "done")

\* C12 witness: two processors wait for the same guild, and it has just been
\* signalled
C12_Witness ==
    \E n, m \in 1..Len(tasks) :
        /\ n < m
        /\ tasks[n].pc = "chunk"
        /\ tasks[m].pc = "chunk"
        /\ tasks[n].guild = tasks[m].guild
        /\ heap[tasks[n].guild].chunked

C14_GatePerGuild ==
    /\ [][\A ref \in 1..Len(heap) :
            (~heap[ref].chunked /\ heap'[ref].chunked)
                => /\ tasks' = tasks
                   /\ \A other \in (1..Len(heap)) \ {ref} :
                        heap'[other].chunked = heap[other].chunked]_vars
    /\ [][\A n \in Resumed : heap[tasks[n].guild].chunked]_vars
    /\ [][\A n \in NewTasks :
            (/\ tasks'[n].kind = "create"
             /\ tasks'[n].pc # "failed"
             /\ get_guild(World, tasks'[n].data.id) = None)
                => /\ tasks'[n].guild = Len(heap')
                   /\ Len(heap') = Len(heap) + 1
                   /\ ~heap'[tasks'[n].guild].chunked
                   /\ fetch_members => tasks'[n].pc = "chunk"]_vars

\* C14 witness: guild 42 was chunked and removed; created again, its
\* processor waits on a new, unset flag while the old one is set
C14_Witness ==
    \E n \in 1..Len(tasks) :
        /\ tasks[n].kind = "create"
        /\ tasks[n].pc = "chunk"
        /\ ~heap[tasks[n].guild].chunked
        /\ \E old \in 1..Len(heap) :
              /\ old < tasks[n].guild
              /\ heap[old].data.id = tasks[n].data.id
              /\ heap[old].chunked
        /\ \E i \in 1..Len(dispatched) :
              /\ dispatched[i].type = "GuildLeft"
              /\ dispatched[i].guild_id = tasks[n].data.id

\* C15: a create processor that waits for the chunking of a guild which is
\* no longer the cached one (it was removed meanwhile) eventually leaves its
\* wait; the runs that use up the payloads of the model are left aside.
C15_FailOpen ==
    \A n \in 1..MaxPayloads :
        (/\ n <= Len(tasks)
         /\ tasks[n].pc = "chunk"
         /\ get_guild(World, tasks[n].data.id) # tasks[n].guild)
            ~> \/ n <= Len(tasks) /\ tasks[n].pc # "chunk"
               \/ Len(tasks) = MaxPayloads

\* the create and update payloads delivered for a guild, by position
WritesTo(guild_id) ==
    {n \in 1..Len(tasks) :
        /\ tasks[n].kind \in {"create", "update"}
        /\ Get(tasks[n].data, "id", None) = guild_id}

\* the greatest element of a non-empty set of positions
Latest(positions) == CHOOSE n \in positions : \A m \in positions : m <= n

\* the fields of a guild payload that go into the record as they are
PlainFields(data) == DOMAIN data \ {"channels", "threads", "members", "roles"}

\* C16: the payloads of one guild are applied in the order of their
\* delivery: once every processor of the guild has written (none is still
\* fetching) and the guild was not removed after its last payload, no field
\* of the cached record holds the value of an earlier payload where the
\* payload delivered last gives another.
C16_DeliveryOrder ==
    \A guild_id \in GuildIds :
        (/\ WritesTo(guild_id) # {}
         /\ \A n \in WritesTo(guild_id) : tasks[n].pc # "fetch"
         /\ tasks[Latest(WritesTo(guild_id))].pc \in {"chunk", "done"}
         /\ \A n \in 1..Len(tasks) :
               (tasks[n].kind = "delete" /\ tasks[n].data.id = guild_id)
                   => n < Latest(WritesTo(guild_id)))
            => /\ get_guild(World, guild_id) # None
               /\ \A n \in WritesTo(guild_id) :
                     \A k \in PlainFields(tasks[n].data) \cap
                               PlainFields(tasks[Latest(WritesTo(guild_id))].data) :
                        tasks[n].data[k] # tasks[Latest(WritesTo(guild_id))].data[k]
                            => heap[guild_cache[guild_id]].data[k] #
                                   tasks[n].data[k]

\* the records written by the step, by position in the history
NewWrites == (Len(writes) + 1)..Len(writes')

\* the step has written a record of that kind and id (and guild, for a
\* guild-scoped kind) before position j
PlacedBefore(j, kind, scope, id) ==
    \E i \in NewWrites :
        /\ i < j
        /\ writes'[i].kind = kind
        /\ writes'[i].key[Len(writes'[i].key)] = id
        /\ scope # None => writes'[i].key[1] = scope

\* C17: whenever a guild or a message is written, every channel, thread,
\* member, role, user or message its relation fields name has been written
\* before it in the same decomposition.
C17_ChildrenFirst ==
    [][\A j \in NewWrites :
         LET data == writes'[j].data
         IN  /\ writes'[j].kind = "guild"
                => /\ \A id \in Range(data.channel_ids) :
                        PlacedBefore(j, "channel", None, id)
                   /\ \A id \in Range(data.thread_ids) :
                        PlacedBefore(j, "channel", None, id)
                   /\ \A id \in Range(data.member_ids) :
                        /\ PlacedBefore(j, "member", data.id, id)
                        /\ PlacedBefore(j, "user", None, id)
                   /\ \A id \in Range(data.role_ids) :
                        PlacedBefore(j, "role", data.id, id)
             /\ writes'[j].kind = "message"
                => /\ "author_id" \in DOMAIN data
                        => PlacedBefore(j, "user", None, data.author_id)
                   /\ \A id \in Range(Get(data, "mention_ids", <<>>)) :
                        PlacedBefore(j, "user", None, id)
                   /\ "referenced_message_id" \in DOMAIN data
                        => PlacedBefore(j, "message", None,
                                        data.referenced_message_id)
                   /\ "thread_channel_id" \in DOMAIN data
                        => PlacedBefore(j, "channel", None,
                                        data.thread_channel_id)]_vars

\* C17 witness: a guild with channels and members and a message with an
\* author, a referenced message and a thread have been written
C17_Witness ==
    /\ \E j \in 1..Len(writes) :
          /\ writes[j].kind = "guild"
          /\ writes[j].data.channel_ids # <<>>
          /\ writes[j].data.member_ids # <<>>
    /\ \E j \in 1..Len(writes) :
          /\ writes[j].kind = "message"
          /\ "author_id" \in DOMAIN writes[j].data
          /\ "referenced_message_id" \in DOMAIN writes[j].data
          /\ "thread_channel_id" \in DOMAIN writes[j].data

\* the values of a mapping
Values(store) == {store[k] : k \in DOMAIN store}

\* the records the cache holds
StoredGuilds(w) == {w.heap[w.guild_cache[g]].data : g \in DOMAIN w.guild_cache}

StoredMembers(w) == UNION {Values(w.member_cache[g]) : g \in DOMAIN w.member_cache}

StoredRecords(w) ==
    StoredGuilds(w) \cup Values(w.channel_cache) \cup Values(w.user_cache)
    \cup StoredMembers(w) \cup Values(w.message_cache)
    \cup UNION {Values(w.role_cache[g]) : g \in DOMAIN w.role_cache}

\* C21: a synchronous accessor returns cached records or nothing, and the
\* step that reads it issues no request, suspends no coroutine and writes
\* nothing. Fails: the channel of a message without a guild id whose channel
\* is not cached is a DM channel made up from the channel id.
C21_SyncReads ==
    [][read' # read
          => /\ Range(read'.result) \subseteq StoredRecords(World)
             /\ UNCHANGED <<world_vars, tasks, dispatched>>]_vars

\* C25: every relation of a cached message and of an auto moderation rule
\* resolves to a record of the cache of its kind, or to nothing. Fails for
\* the channel of a message without a guild id whose channel is not cached.
C25_MissIsAbsence ==
    /\ \A key \in DOMAIN message_cache :
          LET m == message_cache[key]
          IN  /\ Range(message_guild(World, m)) \subseteq StoredGuilds(World)
              /\ Range(message_channel(World, m)) \subseteq Values(channel_cache)
              /\ Range(message_author(World, m))
                    \subseteq StoredMembers(World) \cup Values(user_cache)
              /\ Range(get_referenced_message(World, m))
                    \subseteq Values(message_cache)
    /\ \A rule \in AutoModRules :
          /\ Range(auto_mod_guild(World, rule)) \subseteq StoredGuilds(World)
          /\ Range(auto_mod_creator(World, rule)) \subseteq StoredMembers(World)

\* the records of `store` under the ids of `ids` that it holds, in the order
\* of `ids`
Resolving(ids, store) ==
    LET kept == SelectSeq(ids, LAMBDA id : id \in DOMAIN store)
    IN  [i \in 1..Len(kept) |-> store[kept[i]]]

\* C23: in every state and for every Guild object, cached or evicted, the
\* channels, threads, members and roles views yield exactly the records now
\* in the cache under the ids of the relation list, in the order of the list,
\* and skip the ids that do not resolve.
C23_LazyView ==
    \A g \in 1..Len(heap) :
        LET d == heap[g].data
        IN  /\ channels(World, g) = Resolving(d.channel_ids, channel_cache)
            /\ threads(World, g) = Resolving(d.thread_ids, channel_cache)
            /\ members(World, g)
                  = Resolving(d.member_ids, SubStore(member_cache, d.id))
            /\ roles(World, g)
                  = Resolving(d.role_ids, SubStore(role_cache, d.id))

\* C23 witness: the roles view of a Guild object was read and yielded some
\* of its roles and skipped another, and a Guild object has threads that
\* are not its channels
C23_Witness ==
    /\ read.accessor = "roles"
    /\ \E g \in 1..Len(heap) :
          /\ read.result = roles(World, g)
          /\ Len(read.result) > 0
          /\ Len(read.result) < Len(heap[g].data.role_ids)
    /\ \E g \in 1..Len(heap) :
          /\ heap[g].data.thread_ids # <<>>
          /\ heap[g].data.thread_ids # heap[g].data.channel_ids

\* the tasks that a response of the origin completes in the step
Answered == {n \in 1..Len(tasks) : tasks[n].pc = "fetch" /\ tasks'[n].pc = "done"}

\* C22: fetch_referenced_message and the fetch_guild of the update processor
\* answer from the cache without a request when the record is cached; on a
\* miss they write nothing and suspend on one request, which is the only
\* one they make; when the origin answers the record is stored and is what a
\* synchronous read of the same identifier finds, and what
\* fetch_referenced_message returns.
C22_FetchOnMiss ==
    [][/\ \A n \in NewTasks :
             LET data == tasks'[n].data
             IN  /\ tasks'[n].kind = "fetch_referenced_message"
                       /\ "referenced_message_id" \in DOMAIN data
                    => /\ UNCHANGED world_vars
                       /\ IF Len(get_referenced_message(World, data)) > 0
                          THEN /\ tasks'[n].pc = "done"
                               /\ read'.result = get_referenced_message(World, data)
                          ELSE tasks'[n].pc = "fetch"
                 /\ tasks'[n].kind = "update" /\ "id" \in DOMAIN data
                    => IF get_guild(World, data.id) # None
                       THEN tasks'[n].pc = "done"
                       ELSE tasks'[n].pc = "fetch" /\ UNCHANGED world_vars
       /\ \A n \in 1..Len(tasks) :
             tasks'[n].pc = "fetch" => tasks[n].pc = "fetch"
       /\ \A n \in Answered :
             LET data == tasks[n].data
             IN  /\ tasks[n].kind = "fetch_referenced_message"
                    => /\ <<data.channel_id, data.referenced_message_id>>
                             \in DOMAIN message_cache'
                       /\ read'.accessor = "fetch_referenced_message"
                       /\ read'.result =
                             <<message_cache'[<<data.channel_id,
                                                data.referenced_message_id>>]>>
                       /\ read'.result[1].id = data.referenced_message_id
                 /\ tasks[n].kind = "update"
                    => /\ data.id \in DOMAIN guild_cache'
                       /\ heap'[guild_cache'[data.id]].data.id = data.id]_vars

\* C22 witness: a fetch_referenced_message missed, was answered by the
\* origin and has returned the message of the origin, which is in the cache
C22_Witness ==
    /\ read.accessor = "fetch_referenced_message"
    /\ Len(read.result) = 1
    /\ read.result[1].content = "origin"
    /\ read.result = get_message(World, read.result[1].channel_id, read.result[1].id)
    /\ \E n \in 1..Len(tasks) :
          /\ tasks[n].kind = "fetch_referenced_message"
          /\ tasks[n].pc = "done"
          /\ tasks[n].data.referenced_message_id = read.result[1].id

\* the tasks cancelled in the step
Cancelled ==
    {n \in 1..Len(tasks) : tasks[n].pc # "cancelled" /\ tasks'[n].pc = "cancelled"}

\* the step stores a record fetched from the origin
StoresFetched ==
    \/ \E j \in NewApplied : Get(applied'[j].data, "name", "") = "Origin"
    \/ \E j \in NewWrites :
          /\ writes'[j].kind = "message"
          /\ Get(writes'[j].data, "content", "") = "origin"

\* C24: a processor or accessor is cancelled where it is suspended, on the
\* fetch or on the member chunks, and the cancellation changes nothing but
\* the task, which never runs again. What is suspended on a fetch has
\* written nothing; what is suspended on the member chunks has no write left
\* to do; a fetched record is stored only in the step in which the operation
\* that asked for it completes.
C24_Cancellation ==
    [][/\ \A n \in Cancelled :
             /\ tasks[n].pc \in {"chunk", "fetch"}
             /\ UNCHANGED <<world_vars, user_guild_ids, guild_event, dispatched>>
       /\ \A n \in 1..Len(tasks) :
             tasks[n].pc = "cancelled" => tasks'[n] = tasks[n]
       /\ \A n \in NewTasks : tasks'[n].pc = "fetch" => UNCHANGED world_vars
       /\ \A n \in 1..Len(tasks) :
             tasks[n].pc = "chunk" /\ tasks'[n].pc # "chunk"
                => UNCHANGED world_vars
       /\ StoresFetched => Answered # {}]_vars

\* C24 witness: an update was cancelled while it fetched a guild, which is
\* not in the cache, a create was cancelled while it waited for the member
\* chunks, and the fetch of another task was answered and stored
C24_Witness ==
    /\ \E n \in 1..Len(tasks) :
          /\ tasks[n].kind = "update"
          /\ tasks[n].pc = "cancelled"
          /\ tasks[n].data.id \notin DOMAIN guild_cache
    /\ \E n \in 1..Len(tasks) :
          tasks[n].kind = "create" /\ tasks[n].pc = "cancelled"
    /\ \E j \in 1..Len(applied) : Get(applied[j].data, "name", "") = "Origin"

\* C26: a message whose embedded author has no id of its own is decomposed
\* all the same, and its record keeps the author inline. Fails: the
\* decomposer pops the author and asks the cache to place it, whatever it
\* holds, and the processor raises.
C26_AnonymousInline ==
    \A n \in 1..Len(tasks) :
        LET data == tasks[n].data
            key == <<data.channel_id, data.id>>
        IN  /\ tasks[n].kind = "message"
            /\ "author" \in DOMAIN data
            /\ "id" \notin DOMAIN data.author
            => /\ tasks[n].pc = "done"
               /\ key \in DOMAIN message_cache
               /\ "author" \in DOMAIN message_cache[key]
               /\ message_cache[key].author = data.author

\* C27: while it decomposes a message the decomposer does not descend into
\* a message again: a step writes one message record at most. Fails: the
\* referenced message is placed, and through it the message it references.
C27_NoReDescent ==
    [][Cardinality({j \in NewWrites : writes'[j].kind = "message"}) <= 1]_vars

\* the player thread has been started and has not left run() yet
PlayerRunning == player \notin {"new", "exited"}

\* C28: once stop() has set the stop event of a started player, whether it
\* plays, is paused or waits for the voice socket, the thread leaves its
\* loop and the stopped event gets set.
C28_StopExits ==
    (player # "new" /\ _stop_event) ~> (player = "exited" /\ _stopped)

\* C28 witness: stop() has set the stop event and is about to notify while
\* the player thread waits on the condition for the resume event
C28_Witness ==
    /\ _stop_event
    /\ caller = "L55"
    /\ player = "waiting"
    /\ _cond.waiting
    /\ wait_for = {"_resume"}
    /\ ~_resume

\* C29: while the player is paused, from the return of pause() to the next
\* resume(), the player thread sends no packet. Fails: the thread may have
\* read the resume event on line 107 before pause() cleared it.
C29_PausedSendsNothing ==
    [][player = "L129" /\ player' = "L138" => _resume]_vars

\* the player thread is suspended on the condition because of pause()
SuspendedByPause ==
    /\ player \in {"L120", "waiting"}
    /\ wait_for = {"_resume"}

\* the player thread has just sent a packet
Sending == player = "L138"

\* the loop has been left
Left == player \in {"L145", "L145e", "exited"}

OptionTypeOf(t) ==
    CASE issubclass(t, "bool") -> OptionTypes.BOOLEAN
      [] issubclass(t, "str") -> OptionTypes.STRING
      [] issubclass(t, "int") -> OptionTypes.INTEGER
      [] issubclass(t, "BaseUser") -> OptionTypes.USER
      [] issubclass(t, "BaseChannel") -> OptionTypes.CHANNEL
      [] issubclass(t, "Role") -> OptionTypes.ROLE
      [] issubclass(t, "float") -> OptionTypes.NUMBER
      [] OTHER -> None

\* C31: from_type gives each data type of the list, and each of their
\* subtypes, its option type. Fails for bool, which the test for int
\* catches first.
C31_FromType ==
    call.fn = "from_type" /\ OptionTypeOf(call.t) # None
        => call.result = OptionTypeOf(call.t)

\* The default a field has when a command or an option leaves it out.
FieldDefault(k) ==
    CASE k \in {"name", "description"} -> ""
      [] k = "dm_permission" -> TRUE
      [] k \in {"required", "autocomplete"} -> FALSE
      [] k = "choices" -> <<>>
      [] OTHER -> None

Agrees(local, remote, keys) ==
    \A k \in keys : Get(local, k, FieldDefault(k)) = Get(remote, k, FieldDefault(k))

CommandFields ==
    {"name", "description", "default_member_permissions", "dm_permission",
     "name_localizations", "description_localizations"}

OptionFields ==
    {"type", "name", "description", "required", "autocomplete", "choices",
     "min_value", "max_value", "min_length", "max_length"}

RemoteAgrees(local_cmd, remote_cmd) ==
    /\ Agrees(local_cmd, remote_cmd, CommandFields)
    /\ Len(local_cmd.options) = Len(remote_cmd.options)
    /\ \A i \in DOMAIN local_cmd.options :
        Agrees(local_cmd.options[i], remote_cmd.options[i], OptionFields)

\* C32: sync_needed answers True when there is no remote command, and False
\* whenever the remote command agrees with the local one on the command
\* fields and, option by option, on the option fields, whatever else the
\* remote carries.
C32_SyncNeeded ==
    call.fn = "sync_needed" =>
        IF DOMAIN call.remote_cmd = {} THEN call.result
        ELSE RemoteAgrees(call.local_cmd, call.remote_cmd) => ~call.result

RequiredFirst(options) ==
    \A i, j \in DOMAIN options :
        i < j /\ options[j].required => options[i].required

\* C33: a SlashCommand that was constructed without an error holds at most
\* SLASH_CMD_MAX_OPTIONS options and has every required option before every
\* optional one, the options of slash_option decorators and of annotations
\* on the callback included.
C33_OptionsValid ==
    call.fn = "SlashCommand" /\ ~call.result.raised =>
        /\ Len(call.result.options) <= SLASH_CMD_MAX_OPTIONS
        /\ RequiredFirst(call.result.options)

\* The commands of a registry that share the base name of cmd.
SameBase(registry, cmd) ==
    {registry[i] : i \in {j \in DOMAIN registry : registry[j].name = cmd.name}}

Squashed(registry, cmd) ==
    \E c \in SameBase(registry, cmd) : is_subcommand(c)

Conflicting(registry) ==
    \E i, j \in DOMAIN registry :
        /\ registry[i].name = registry[j].name
        /\ Squashed(registry, registry[i])
        /\ \/ registry[i].default_member_permissions
                # registry[j].default_member_permissions
           \/ registry[i].dm_permission # registry[j].dm_permission

\* The entries of the output under scope s that carry the base name.
EntriesOf(output, s, name) ==
    IF s \in DOMAIN output
    THEN {i \in DOMAIN output[s] : output[s][i].name = name}
    ELSE {}

\* A subcommand is found among the options of its entry, inside its group
\* when it has one.
Holds(cmd_data, cmd) ==
    IF cmd.group_name = ""
    THEN \E k \in DOMAIN cmd_data.options :
            cmd_data.options[k].name = cmd.sub_cmd_name
    ELSE \E k \in DOMAIN cmd_data.options :
            /\ cmd_data.options[k].name = cmd.group_name
            /\ \E l \in DOMAIN cmd_data.options[k].options :
                cmd_data.options[k].options[l].name = cmd.sub_cmd_name

Appears(output, registry, cmd, s) ==
    IF Squashed(registry, cmd)
    THEN /\ Cardinality(EntriesOf(output, s, cmd.name)) = 1
         /\ is_subcommand(cmd) =>
                \A i \in EntriesOf(output, s, cmd.name) : Holds(output[s][i], cmd)
    ELSE \E i \in EntriesOf(output, s, cmd.name) :
            output[s][i].description = cmd.description

\* C39: application_commands_to_dict raises when commands squashed under one
\* base name disagree on default_member_permissions or dm_permission;
\* otherwise every command of the registry appears in the output under each
\* of its scopes, and a squashed base name is one entry, once under every
\* scope of the union of the scopes of its commands.
C39_NoCommandLost ==
    call.fn = "application_commands_to_dict" =>
        IF Conflicting(call.commands) THEN call.result.raised
        ELSE /\ ~call.result.raised
             /\ \A i \in DOMAIN call.commands :
                    LET cmd == call.commands[i]
                        scopes == IF Squashed(call.commands, cmd)
                                  THEN UNION {c.scopes : c \in SameBase(call.commands, cmd)}
                                  ELSE cmd.scopes
                    IN  \A s \in scopes :
                            Appears(call.result.output, call.commands, cmd, s)

\* the create processors suspended in guild.chunk()
Chunking == {n \in 1..Len(tasks) : tasks[n].kind = "create" /\ tasks[n].pc = "chunk"}

Denoted(x) == x % Wire

\* a GUILD_DELETE payload that removes the guild
Removes(n, guild_id) ==
    /\ tasks[n].kind = "delete"
    /\ Denoted(tasks[n].data.id) = guild_id
    /\ ~Get(tasks[n].data, "unavailable", FALSE)

\* the guilds that were created and not removed afterwards
Joined ==
    {guild_id \in GuildIds :
        \E n \in 1..Len(tasks) :
            /\ tasks[n].kind = "create"
            /\ Denoted(tasks[n].data.id) = guild_id
            /\ \A m \in (n + 1)..Len(tasks) : ~Removes(m, guild_id)}

\* C35: the user's guild ids are exactly the guilds that were created and
\* not removed afterwards by a delete without the unavailable flag, an id
\* given as a string and as an integer being the same guild; and a delete of
\* a guild that is not among them leaves them as they are, takes the guild
\* out of the cache and dispatches GuildLeft.
C35_UserGuildIds ==
    /\ [](user_guild_ids = Joined)
    /\ [][\A m \in NewTasks :
            (/\ tasks'[m].kind = "delete"
             /\ ~Get(tasks'[m].data, "unavailable", FALSE)
             /\ Denoted(tasks'[m].data.id) \notin user_guild_ids)
                => /\ user_guild_ids' = user_guild_ids
                   /\ get_guild(World', Denoted(tasks'[m].data.id)) = None
                   /\ \E i \in NewEvents :
                        /\ dispatched'[i].type = "GuildLeft"
                        /\ dispatched'[i].task = m
                        /\ dispatched'[i].guild_id = Denoted(tasks'[m].data.id)]_vars

\* C35 witness: a guild created by its string id and removed by its integer
\* id is out of the set, and a second delete of it has dispatched GuildLeft
\* again
C35_Witness ==
    /\ Len(tasks) = 3
    /\ tasks[1].kind = "create" /\ tasks[1].data.id = str(42)
    /\ tasks[2].kind = "delete" /\ tasks[2].data.id = 42
    /\ tasks[3].kind = "delete" /\ tasks[3].data.id = str(42)
    /\ 42 \notin user_guild_ids
    /\ \E i \in 1..Len(dispatched) :
        dispatched[i].type = "GuildLeft" /\ dispatched[i].task = 3

\* C36: the step that handles a guild delete payload with unavailable = true
\* leaves the user's guild ids, the guild cache (delete_guild is not called),
\* the members, roles and emoji of every guild and the records of every
\* other guild as they were; of the guild's own record nothing but its
\* unavailable field may differ.
C36_UnavailableFrame ==
    [][\A m \in NewTasks :
            (/\ tasks'[m].kind = "delete"
             /\ tasks'[m].pc = "done"
             /\ Get(tasks'[m].data, "unavailable", FALSE))
                => LET own == get_guild(World, int(tasks'[m].data.id))
                   IN  /\ user_guild_ids' = user_guild_ids
                       /\ guild_cache' = guild_cache
                       /\ member_cache' = member_cache
                       /\ role_cache' = role_cache
                       /\ emoji_cache' = emoji_cache
                       /\ channel_cache' = channel_cache
                       /\ user_cache' = user_cache
                       /\ Len(heap') = Len(heap)
                       /\ \A ref \in 1..Len(heap) :
                            IF ref # own THEN heap'[ref] = heap[ref]
                            ELSE /\ heap'[ref].chunked = heap[ref].chunked
                                 /\ \A k \in DOMAIN heap[ref].data \ {"unavailable"} :
                                        /\ k \in DOMAIN heap'[ref].data
                                        /\ heap'[ref].data[k] = heap[ref].data[k]]_vars

\* C36 witness: guild 42 went unavailable while it was among the user's
\* guilds with members and roles in the cache, and all of it is still there
C36_Witness ==
    /\ \E i \in 1..Len(dispatched) :
        /\ dispatched[i].type = "GuildUnavailable"
        /\ dispatched[i].guild_id = 42
        /\ dispatched[i].guild # MISSING
    /\ 42 \in user_guild_ids
    /\ get_guild(World, 42) # None
    /\ ScopedIds(member_cache, 42) # {}
    /\ ScopedIds(role_cache, 42) # {}

\* the cached emoji of that id, under whatever guild
CachedEmoji(emoji_id) ==
    {emoji_cache[g][emoji_id] :
        g \in {h \in DOMAIN emoji_cache : emoji_id \in DOMAIN emoji_cache[h]}}

\* C37: a guild emojis update dispatches exactly one GuildEmojisUpdate.
\* Its `after` holds the placed emoji of each emoji of the payload, in
\* payload order. When the emoji cache held something before the step, its
\* `before` has one entry per emoji of the payload: the emoji cached under
\* that id before the step, or nothing when there was none; when the cache
\* was empty, `before` is the empty list.
C37_EmojisUpdate ==
    [][\A m \in NewTasks :
            tasks'[m].kind = "emojis_update" =>
                LET emojis == tasks'[m].data.emojis
                    guild_id == tasks'[m].data.guild_id
                    sent == {i \in NewEvents : dispatched'[i].task = m}
                IN  /\ Cardinality(sent) = 1
                    /\ \A i \in sent :
                        LET e == dispatched'[i]
                        IN  /\ e.type = "GuildEmojisUpdate"
                            /\ Len(e.after) = Len(emojis)
                            /\ \A k \in 1..Len(emojis) :
                                /\ e.after[k].id = emojis[k].id
                                /\ e.after[k].name = emojis[k].name
                                /\ e.after[k] = emoji_cache'[guild_id][emojis[k].id]
                            /\ IF emoji_cache # EmptyStore
                               THEN /\ Len(e.before) = Len(emojis)
                                    /\ \A k \in 1..Len(emojis) :
                                        IF CachedEmoji(emojis[k].id) = {}
                                        THEN e.before[k] = <<>>
                                        ELSE /\ Len(e.before[k]) = 1
                                             /\ e.before[k][1]
                                                    \in CachedEmoji(emojis[k].id)
                               ELSE e.before = <<>>]_vars

\* C37 witness: an update of two emoji of which one was cached under another
\* name and the other was not cached
C37_Witness ==
    \E i \in 1..Len(dispatched) :
        /\ dispatched[i].type = "GuildEmojisUpdate"
        /\ Len(dispatched[i].before) = 2
        /\ Len(dispatched[i].after) = 2
        /\ \E k, l \in 1..2 :
            /\ dispatched[i].before[k] = <<>>
            /\ dispatched[i].before[l] # <<>>
            /\ dispatched[i].before[l][1].name # dispatched[i].after[l].name

\* C38: the step that leaves the playback loop, after stop(), at the end of
\* the audio or with an exception raised while reading or sending, hands
\* speaking(False) and self._stopped.set to the event loop and calls
\* cleanup() on the source; cleanup() has been called once when the thread is
\* over and never before; the stopped flag is set in the end. A frame read as
\* empty ends the playback only when the source is complete and is not a
\* locked stream; otherwise the loop goes on, by way of the silence frame.
C38_Shutdown ==
    /\ [][(player \in {"L145", "L145e"} /\ player' # player)
            => /\ player' = "exited"
               /\ {"speaking(False)", "_stopped.set"} \subseteq loop_calls'
               /\ current_audio'.cleanups = current_audio.cleanups + 1]_vars
    /\ [](current_audio.cleanups = IF player = "exited" THEN 1 ELSE 0)
    /\ (player \in {"L145", "L145e"}) ~> _stopped
    /\ [][(player = "L129" /\ current_audio.frames = 0 /\ player' # player)
            => \/ player' = "L145e"
               \/ player' = IF current_audio.complete /\ ~current_audio.locked_stream
                            THEN "L145" ELSE "L138"]_vars

\* C38 witness: the thread is over after an exception on a source that was
\* not complete, the source was cleaned up once and the stopped flag is set
C38_Witness ==
    /\ player = "exited"
    /\ ~_stop_event
    /\ ~current_audio.complete
    /\ current_audio.cleanups = 1
    /\ _stopped
    /\ loop_calls = {}

====
